---- MODULE Spec2Model ----
(***************************************************************************)
(* 365bot: scheduled lead management and KPI notification job.             *)
(*                                                                         *)
(* The model follows src/unnamed/part_000 (the variant of the main script  *)
(* that parses; src/main.py is the same program with broken indentation).  *)
(* One step of the model is one HTTP request of a retry-wrapped call       *)
(* together with all the local computation that follows it up to the next  *)
(* request.  The three remote services (lead store, push service, payment  *)
(* provider) are the environment: each request gets one of the responses   *)
(* of Responses (the lead store's query also those of QueryResponses).    *)
(* Every response is assumed to carry a JSON object body.                  *)
(***************************************************************************)
EXTENDS Integers, Sequences, FiniteSets, TLC

\* ------------------------------------------------------------------ bounds

\* Invocations of main (process runs) in one behaviour.
MaxRuns == 2

\* Records the lead store returns per page of a database query.
PageSize == 1

\* Responses other than a plain 200 that the services give in one behaviour.
MaxFaults == 6

\* Page requests of one call of query_notion_leads that are counted (the
\* count stays at the bound when the store goes on without end).
MaxReqs == 4

\* Genres of a configuration, identifiers of one genre's notify_user_ids, and
\* pages of a batch of leads, where a function is checked on its own.
MaxGenres == 3

MaxIds == 1

MaxBatch == 2

\* The processes that may run main (two, so that overlapping runs exist).
Procs == {1, 2}

\* Days of the month on which a run may take place (datetime.now()).
Days == {1, 10}

\* ------------------------------------------------------- program constants

\* stop=stop_after_attempt(3)
MaxAttempts == 3

\* month_target = 1_000_000
month_target == 1000000

\* if resp.status_code != 200
StatusOK == 200

\* The comment above month_target: "月間目標1,000万円" (ten million yen).
stated_month_target == 10000000

\* ---------------------------------------------------------- environment

\* What one HTTP request can end in:
\*   "200"     the server did the work and answered 200
\*   "300"     the server did nothing and answered a status that is neither
\*             200 nor an error status (below 400), with an empty JSON object
\*   "500"     the server did nothing and answered an error status (>= 400)
\*   "conn"    requests.ConnectionError: the request never reached the server
\*   "timeout" requests.Timeout (timeout=10): the server did the work, the
\*             response did not arrive in time
Responses == {"200", "300", "500", "conn", "timeout"}

\* A database query can also end in
\*   "cut"     the store answered 200 with the page asked for, has_more true
\*             and no next_cursor (null)
QueryResponses == Responses \cup {"cut"}

status_code(resp) ==
    CASE resp = "200" -> 200
      [] resp = "cut" -> 200
      [] resp = "300" -> 300
      [] resp = "500" -> 500
      [] OTHER -> 0

\* The server carried the request out.
Applied(resp) == resp \in {"200", "timeout"}

\* requests.post itself raises (no response object).
PostRaises(resp) == resp \in {"conn", "timeout"}

PostException(resp) == IF resp = "conn" THEN "ConnectionError" ELSE "Timeout"

\* requests: Response.raise_for_status raises HTTPError for 400 <= status < 600.
raise_for_status(status) == status >= 400 /\ status < 600

\* The exception one attempt's request ends in, "" when the attempt goes on:
\*   resp = requests.post(...)
\*   if resp.status_code != 200: logging.error(...); resp.raise_for_status()
AttemptException(resp) ==
    IF PostRaises(resp) THEN PostException(resp)
    ELSE IF status_code(resp) # StatusOK /\ raise_for_status(status_code(resp))
         THEN "HTTPError"
         ELSE ""

\* The error log line "... failed: {status} {text}" is written.
LogsFailure(resp) == ~PostRaises(resp) /\ status_code(resp) # StatusOK

\* requests.RequestException and its subclasses.
RequestException == {"HTTPError", "ConnectionError", "Timeout"}

\* Mutant: only connection-level failures and timeouts are retried.
retry_only_connection_errors(exc) == exc \in {"ConnectionError", "Timeout"}

\* retry=retry_if_exception_type((requests.RequestException,))
retry_if_exception_type(exc) == exc \in RequestException

\* Mutant: the stop condition is off by one (a fourth attempt is made).
stop_after_one_more(att) == att > MaxAttempts

\* stop=stop_after_attempt(3)
stop_after_attempt(att) == att >= MaxAttempts

\* ---------------------------------------------------------- configuration

Get(rec, key, default) == IF key \in rec.keys THEN rec[key] ELSE default

GenreKeys == {"product_name", "price", "expected_cvr", "notify_user_ids"}

\* {} : a genre without any key
EmptyGenre ==
    [keys |-> {}, product_name |-> "", price |-> 0,
     expected_cvr |-> <<>>, notify_user_ids |-> <<>>]

Genre1 ==
    [keys |-> GenreKeys, product_name |-> "p1", price |-> 1000,
     expected_cvr |-> <<5>>, notify_user_ids |-> <<"u1">>]

Genre2 ==
    [keys |-> GenreKeys, product_name |-> "p2", price |-> 2000,
     expected_cvr |-> <<>>, notify_user_ids |-> <<"u1", "">>]

RECURSIVE Concat(_)
Concat(seqs) ==
    IF seqs = <<>> THEN <<>> ELSE Head(seqs) \o Concat(Tail(seqs))

\* Mutant: empty identifiers are dropped, repeated ones are kept.
no_dedup(ids, seen) == SelectSeq(ids, LAMBDA uid : uid # "")

RECURSIVE Dedup(_, _)
\* for uid in ids: if uid and uid not in seen: seen.add(uid); result.append(uid)
Dedup(ids, seen) ==
    IF ids = <<>> THEN <<>>
    ELSE IF Head(ids) # "" /\ Head(ids) \notin seen
         THEN <<Head(ids)>> \o Dedup(Tail(ids), seen \cup {Head(ids)})
         ELSE Dedup(Tail(ids), seen)

resolve_notify_user_ids(cfg, line_user_id) ==
    LET genres == Get(cfg, "genre", <<>>)
        lists  == [i \in 1..Len(genres) |-> Get(genres[i], "notify_user_ids", <<>>)]
        ids    == Concat(lists) \o (IF line_user_id # "" THEN <<line_user_id>> ELSE <<>>)
    IN Dedup(ids, {})

\* ------------------------------------------------------------- lead store

\* A page of the lead database.  External_ID is the content list of the
\* rich_text property, Price the number (<<>> for null), Payment_Status the
\* name of the select option ("NULL" when the select itself is null).
Page(ext, product, price, cvr, payment) ==
    [External_ID |-> ext, Product |-> product, Price |-> price, CVR |-> cvr,
     Status |-> "New", Payment_Status |-> payment]

ConfigFull == [keys |-> {"genre"}, genre |-> <<Genre1, Genre2>>]

ConfigEmpty == [keys |-> {}, genre |-> <<>>]

\* config.yaml with an empty genre list (genre: [])
ConfigNoGenres == [keys |-> {"genre"}, genre |-> <<>>]

\* The deployments the job starts in: the pages already in the database
\* (pages are edited by hand there: payment status, price), config.yaml and
\* the environment variables.
Setups ==
    { [store |-> <<>>,
       config |-> ConfigFull, LINE_USER_ID |-> "u2", STRIPE_SECRET_KEY |-> "sk"],
      [store |-> << Page(<<"e0">>, "p1", <<500000>>, <<>>, "Completed") >>,
       config |-> ConfigFull, LINE_USER_ID |-> "", STRIPE_SECRET_KEY |-> ""],
      [store |-> << Page(<<>>, "p2", <<>>, <<>>, "NULL") >>,
       config |-> ConfigEmpty, LINE_USER_ID |-> "u2", STRIPE_SECRET_KEY |-> ""],
      [store |-> <<>>,
       config |-> ConfigNoGenres, LINE_USER_ID |-> "", STRIPE_SECRET_KEY |-> "sk"] }

Min(a, b) == IF a < b THEN a ELSE b

\* The response body of a database query with payload {"start_cursor": c}
\* (cursor <<>>: no start_cursor): one page of the store.
QueryBody(st, cursor) ==
    LET from == IF cursor = <<>> THEN 0 ELSE cursor[1]
        to   == Min(from + PageSize, Len(st))
    IN [results     |-> SubSeq(st, from + 1, to),
        has_more    |-> to < Len(st),
        next_cursor |-> IF to < Len(st) THEN <<to>> ELSE <<>>]

\* {} : the body of a response that is not a query result
EmptyBody == [results |-> <<>>, has_more |-> FALSE, next_cursor |-> <<>>]

\* data = resp.json() of a database query that got resp
QueryAnswer(resp, st, cursor) ==
    IF resp = "200" THEN QueryBody(st, cursor)
    ELSE IF resp = "cut"
         THEN [QueryBody(st, cursor) EXCEPT !.has_more = TRUE, !.next_cursor = <<>>]
         ELSE EmptyBody

\* ---------------------------------------------------------------- metrics

\* props.get("Payment_Status", {}).get("select", {}).get("name") raises
\* AttributeError when the select of a page is null.
MetricsRaises(leads) ==
    \E i \in 1..Len(leads) : leads[i].Payment_Status = "NULL"

\* price = props.get("Price", {}).get("number", 0) or 0
PriceOf(page) == IF page.Price = <<>> THEN 0 ELSE page.Price[1]

RECURSIVE SumRevenue(_)
SumRevenue(leads) ==
    IF leads = <<>> THEN 0
    ELSE (IF Head(leads).Payment_Status = "Completed" THEN PriceOf(Head(leads)) ELSE 0)
         + SumRevenue(Tail(leads))

\* cvr is the fraction conversions / total_leads, kept as a pair; 0 is <<0, 1>>.
extract_lead_metrics(leads) ==
    LET total_leads == Len(leads)
        conversions == Cardinality({i \in 1..Len(leads) :
                                      leads[i].Payment_Status = "Completed"})
    IN [total_leads |-> total_leads,
        conversions |-> conversions,
        revenue     |-> SumRevenue(leads),
        cvr         |-> IF total_leads > 0 THEN <<conversions, total_leads>>
                                           ELSE <<0, 1>>]

\* floor(x / y) for x >= 0, y > 0
IntDiv(x, y) == x \div y

RECURSIVE Pow2(_)
Pow2(e) == IF e = 0 THEN 1 ELSE 2 * Pow2(e - 1)

\* 2^k modulo d
RECURSIVE PowMod2(_, _)
PowMod2(k, d) == IF k = 0 THEN 1 % d ELSE (2 * PowMod2(k - 1, d)) % d

\* The binary exponent of the float a / b (a, b > 0): floor(log2(a / b)).
RECURSIVE Exponent(_, _)
Exponent(a, b) ==
    IF a >= 2 * b THEN Exponent(a, 2 * b) + 1
    ELSE IF a < b THEN Exponent(2 * a, b) - 1
    ELSE 0

\* avg_per_day = revenue / days_elapsed; int(remaining / avg_per_day)
\* for remaining >= 0, in the float arithmetic of the code (IEEE 754 double,
\* 53 significant bits, round to nearest), computed on integers.  The two
\* roundings move the quotient by less than the distance of
\* remaining * days_elapsed / revenue to the next integer unless that
\* quotient is an integer n itself; then the result is n - 1 exactly when
\* avg_per_day was rounded up (by (d - r) / d units of its last place) far
\* enough for remaining / avg_per_day to round below n.
int_days_left(remaining, revenue, days_elapsed) ==
    LET d  == days_elapsed
        P  == remaining * d
        n  == IntDiv(P, revenue)
        eq == Exponent(revenue, d)
        r  == ((revenue % d) * PowMod2(52 - eq, d)) % d
        en == Exponent(n, 1)
        c  == IF n = Pow2(en) THEN 4 ELSE 2
        L  == IF en >= eq THEN c * n * (d - r)
                          ELSE c * n * (d - r) * Pow2(eq - en)
        R  == IF en >= eq THEN revenue * Pow2(en - eq) ELSE revenue
    IN IF P % revenue # 0 \/ n = 0 THEN n
       ELSE IF 2 * r <= d THEN n
       ELSE IF L <= R THEN n
       ELSE n - 1

\* The forecast line of the KPI message on day days_elapsed of the month.
\* days_left = remaining / (revenue / days_elapsed); it is negative exactly
\* when remaining is.
DaysLeftMsg(revenue, days_elapsed) ==
    IF revenue > 0
    THEN LET remaining == month_target - revenue
         IN IF remaining < 0
            THEN [msg |-> "achieved", days |-> 0]
            ELSE [msg |-> "days",
                  days |-> int_days_left(remaining, revenue, days_elapsed)]
    ELSE [msg |-> "insufficient", days |-> 0]

\* ---------------------------------------------------------------- messages

NoText == [kind |-> "none", lines |-> <<>>]

KpiMessage(metrics, days_elapsed) ==
    [kind  |-> "kpi",
     lines |-> <<metrics.total_leads, metrics.conversions, metrics.cvr,
                 metrics.revenue, DaysLeftMsg(metrics.revenue, days_elapsed)>>]

\* error_msg = f"... {e}"
ErrorMessage(exc) == [kind |-> "fail", lines |-> <<exc>>]

\* msg = f"...: {external_id}" (+ f" ... {checkout_url}" if checkout_url)
LeadMessage(external_id, checkout_url) ==
    [kind |-> "lead", lines |-> <<external_id>> \o checkout_url]

\* ------------------------------------------------------------ registration

\* The FORM_* environment variables of a run.  external_id "" : not set.
\* "p1" is a configured product name, "px" is not.
NoForm == [external_id |-> "", product |-> ""]

Forms ==
    { NoForm,
      [external_id |-> "e1", product |-> "p1"],
      [external_id |-> "e2", product |-> "px"] }

\* Mutant: the scan never finds the submitted External ID.
never_duplicate(leads, external_id) == FALSE

\* if ext_info and ext_info[0]["text"]["content"] == form_data["external_id"]
IsDuplicate(leads, external_id) ==
    \E i \in 1..Len(leads) :
        /\ leads[i].External_ID # <<>>
        /\ leads[i].External_ID[1] = external_id

\* Mutant: a product without a genre of its own gets the empty genre, the
\* first configured genre is not substituted.
SelectGenre_no_default(cfg, product) ==
    LET genres == Get(cfg, "genre", <<>>)
        hits   == {i \in 1..Len(genres) :
                     "product_name" \in genres[i].keys
                     /\ genres[i].product_name = product}
    IN IF hits # {}
       THEN genres[CHOOSE i \in hits : \A j \in hits : i <= j]
       ELSE EmptyGenre

\* The genre whose product_name is the submitted product; when there is none
\* the first configured genre, or {} when no genre is configured.
SelectGenre(cfg, product) ==
    LET genres == Get(cfg, "genre", <<>>)
        hits   == {i \in 1..Len(genres) :
                     "product_name" \in genres[i].keys
                     /\ genres[i].product_name = product}
    IN IF hits # {}
       THEN genres[CHOOSE i \in hits : \A j \in hits : i <= j]
       ELSE IF Len(genres) > 0 THEN genres[1] ELSE EmptyGenre

\* price = genre.get("price", 0) or 0
GenrePrice(genre) == Get(genre, "price", 0)

Properties(cfg, f) ==
    LET genre == SelectGenre(cfg, f.product)
    IN Page(<<f.external_id>>, f.product, <<GenrePrice(genre)>>,
            Get(genre, "expected_cvr", <<>>), "Pending")

\* create_stripe_checkout_link(genre.get("product_name", form_data["product"]), price)
LinkArgs(cfg, f) ==
    LET genre == SelectGenre(cfg, f.product)
    IN [product_name |-> Get(genre, "product_name", f.product),
        unit_amount  |-> GenrePrice(genre) * 100]

\* ------------------------------------------------------------------ state

VARIABLES
    store,              \* the lead database: the sequence of its pages
    config,             \* load_config()
    LINE_USER_ID,       \* os.getenv("LINE_USER_ID", "").strip()
    STRIPE_SECRET_KEY,  \* os.getenv("STRIPE_SECRET_KEY"), "" when not set
    runs,               \* invocations of main started so far
    faults,             \* responses other than a plain 200 given so far
    pc,                 \* per process: where its run of main stands
    form,               \* per process: the FORM_* variables of its run
    call,               \* per process: the retry-wrapped call in progress
    lastCall,           \* per process: the retry-wrapped call its last step ended
    todo,               \* per process: recipients the fan-out loop has left
    text,               \* per process: the message of the fan-out loop
    hist,               \* per process: what its run has done so far
    delivered           \* per process: messages its run made the push service deliver

vars == <<store, config, LINE_USER_ID, STRIPE_SECRET_KEY, runs, faults, pc, form,
          call, lastCall, todo, text, hist, delivered>>

Stopped == {"idle", "exit", "crashed"}

\* ------------------------------------------------------ retry-wrapped calls

\* att: the attempt in progress; http: attempts that ended in HTTPError;
\* reqs: requests made; cursor, results: the pagination loop's locals.
NoCall ==
    [fn |-> "none", att |-> 0, http |-> 0, reqs |-> 0,
     cursor |-> <<>>, results |-> <<>>]

\* The first attempt of a call of fn: the function body starts with its
\* locals fresh (payload = {}, results = []).
NewCall(fn) ==
    [fn |-> fn, att |-> 1, http |-> 0, reqs |-> 0,
     cursor |-> <<>>, results |-> <<>>]

NoLastCall ==
    [fn |-> "none", at |-> "none", att |-> 0, reqs |-> 0,
     outcome |-> "none", result |-> <<>>, final |-> "none"]

\* The call c made at position at ended: outcome "returned" with result, or
\* the exception raised to the caller.  final is the last response.
Ended(c, at, outcome, result, final) ==
    [fn |-> c.fn, at |-> at, att |-> c.att, reqs |-> c.reqs + 1,
     outcome |-> outcome, result |-> result, final |-> final]

\* Mutant: the retry wraps one page request: the next attempt goes on with
\* the cursor and the list of the attempt that failed.
Attempt_page_retry(c, at, resp, value, more) ==
    LET exc  == AttemptException(resp)
        http == IF exc = "HTTPError" THEN c.http + 1 ELSE c.http
    IN IF exc = ""
       THEN IF more # <<>>
            THEN [kind |-> "go", call |-> more[1], last |-> NoLastCall]
            ELSE [kind |-> "end", call |-> NoCall,
                  last |-> Ended(c, at, "returned", value, resp)]
       ELSE IF ~retry_if_exception_type(exc)
            THEN [kind |-> "end", call |-> NoCall,
                  last |-> Ended(c, at, exc, <<>>, resp)]
            ELSE IF stop_after_attempt(c.att)
                 THEN [kind |-> "end", call |-> NoCall,
                       last |-> Ended(c, at, "RetryError", <<>>, resp)]
                 ELSE [kind |-> "go",
                       call |-> [c EXCEPT !.att = c.att + 1,
                                          !.http = http,
                                          !.reqs = c.reqs + 1],
                       last |-> NoLastCall]

\* tenacity's loop around one attempt of call c, whose request got resp.
\* value is what a passing attempt returns; more is the next state of the
\* attempt when it goes on to another request (<<>> when it does not).
\*   kind "go"   : the call goes on (same attempt, or the next one)
\*   kind "end"  : the call ended; last says how
Attempt(c, at, resp, value, more) ==
    LET exc  == AttemptException(resp)
        http == IF exc = "HTTPError" THEN c.http + 1 ELSE c.http
    IN IF exc = ""
       THEN IF more # <<>>
            THEN [kind |-> "go", call |-> more[1], last |-> NoLastCall]
            ELSE [kind |-> "end", call |-> NoCall,
                  last |-> Ended(c, at, "returned", value, resp)]
       ELSE IF ~retry_if_exception_type(exc)
            THEN [kind |-> "end", call |-> NoCall,
                  last |-> Ended(c, at, exc, <<>>, resp)]
            ELSE IF stop_after_attempt(c.att)
                 THEN [kind |-> "end", call |-> NoCall,
                       last |-> Ended(c, at, "RetryError", <<>>, resp)]
                 ELSE [kind |-> "go",
                       call |-> [NewCall(c.fn) EXCEPT !.att = c.att + 1,
                                                      !.http = http,
                                                      !.reqs = c.reqs + 1],
                       last |-> NoLastCall]

\* --------------------------------------------------------------- use cases

\* kpi: "done" (send_daily_kpi_notification returned), "raised" (it raised,
\* main logged it); reg: "skipped" (duplicate), "aborted" (insert failed),
\* "done", "raised" (process_lead_registration raised); sends: the calls of
\* send_line_message that ended, in order; requested: which of
\* create_notion_lead ("insert") and create_stripe_checkout_link ("link")
\* made a request; created: pages the requests of create_notion_lead made.
NoHist ==
    [kpi |-> "none", reg |-> "none", sends |-> <<>>,
     requested |-> {}, created |-> 0]

Local(nextpc, c, uids, txt, h) ==
    [pc |-> nextpc, call |-> c, todo |-> uids, text |-> txt, hist |-> h]

\* for uid in resolve_notify_user_ids(config): try: send_line_message(uid, txt)
\* With no recipient the loop body never runs and the use case is over.
FanOut(looppc, uids, txt, h, over) ==
    IF uids = <<>> THEN over
    ELSE Local(looppc, NewCall("send"), uids, txt, h)

\* Mutant: main calls send_daily_kpi_notification outside try/except, so
\* its exception leaves main.
kpi_over_uncaught(h, how) ==
    IF how = "raised"
    THEN Local("crashed", NoCall, <<>>, NoText, [h EXCEPT !.kpi = how])
    ELSE Local("kpi_done", NoCall, <<>>, NoText, [h EXCEPT !.kpi = how])

\* send_daily_kpi_notification is over: it returned (how = "done"), or it
\* raised and main caught and logged the exception (how = "raised").
kpi_over(h, how) ==
    Local("kpi_done", NoCall, <<>>, NoText, [h EXCEPT !.kpi = how])

\* send_daily_kpi_notification from the return (or the exception) of
\* query_notion_leads to its first send.
send_daily_kpi_notification(cfg, line_user_id, h, last, days_elapsed) ==
    IF last.outcome # "returned" \/ MetricsRaises(last.result)
    THEN kpi_over(h, "raised")
    ELSE FanOut("kpi_send",
                resolve_notify_user_ids(cfg, line_user_id),
                KpiMessage(extract_lead_metrics(last.result), days_elapsed),
                h,
                kpi_over(h, "done"))

\* process_lead_registration after the success notification loop.
registration_done(h) ==
    Local("exit", NoCall, <<>>, NoText, [h EXCEPT !.reg = "done"])

\* process_lead_registration after the failure notification loop: return.
registration_aborted(h) ==
    Local("exit", NoCall, <<>>, NoText, [h EXCEPT !.reg = "aborted"])

\* An exception leaves process_lead_registration, and main with it.
registration_raised(h) ==
    Local("crashed", NoCall, <<>>, NoText, [h EXCEPT !.reg = "raised"])

\* process_lead_registration from the return of create_stripe_checkout_link
\* (checkout_url: <<>> for None) to the first send of the notification.
process_lead_registration_notify(cfg, line_user_id, f, h, checkout_url) ==
    FanOut("reg_notify",
           resolve_notify_user_ids(cfg, line_user_id),
           LeadMessage(f.external_id, checkout_url),
           h,
           registration_done(h))

\* Mutant: a failed dedup query is taken for an empty database.
process_lead_registration_swallow(f, h, last) ==
    IF last.outcome = "returned" /\ IsDuplicate(last.result, f.external_id)
    THEN Local("exit", NoCall, <<>>, NoText, [h EXCEPT !.reg = "skipped"])
    ELSE Local("reg_insert", NewCall("insert"), <<>>, NoText, h)

\* process_lead_registration from the return (or the exception) of
\* query_notion_leads to the insert.
process_lead_registration(f, h, last) ==
    IF last.outcome # "returned"
    THEN registration_raised(h)
    ELSE IF IsDuplicate(last.result, f.external_id)
         THEN Local("exit", NoCall, <<>>, NoText, [h EXCEPT !.reg = "skipped"])
         ELSE Local("reg_insert", NewCall("insert"), <<>>, NoText, h)

\* Mutant: create_stripe_checkout_link has no check of the key, the request
\* is made without a credential.
process_lead_registration_inserted_keyless(cfg, line_user_id, stripe_key, f, h, last) ==
    IF last.outcome # "returned"
    THEN FanOut("reg_fail_notify",
                resolve_notify_user_ids(cfg, line_user_id),
                ErrorMessage(last.outcome),
                h,
                registration_aborted(h))
    ELSE Local("reg_link", NewCall("link"), <<>>, NoText, h)

\* Mutant: a failed insert is logged and nobody is notified.
process_lead_registration_inserted_silent(cfg, line_user_id, stripe_key, f, h, last) ==
    IF last.outcome # "returned"
    THEN registration_aborted(h)
    ELSE IF stripe_key = ""
         THEN process_lead_registration_notify(cfg, line_user_id, f, h, <<>>)
         ELSE Local("reg_link", NewCall("link"), <<>>, NoText, h)

\* process_lead_registration from the return (or the exception) of
\* create_notion_lead to the next request.  Without a Stripe key
\* create_stripe_checkout_link returns None without any request.
process_lead_registration_inserted(cfg, line_user_id, stripe_key, f, h, last) ==
    IF last.outcome # "returned"
    THEN FanOut("reg_fail_notify",
                resolve_notify_user_ids(cfg, line_user_id),
                ErrorMessage(last.outcome),
                h,
                registration_aborted(h))
    ELSE IF stripe_key = ""
         THEN process_lead_registration_notify(cfg, line_user_id, f, h, <<>>)
         ELSE Local("reg_link", NewCall("link"), <<>>, NoText, h)

\* Mutant: a failed create_stripe_checkout_link is caught and the
\* notification goes out without a URL.
process_lead_registration_linked_caught(cfg, line_user_id, f, h, last) ==
    process_lead_registration_notify(cfg, line_user_id, f, h, last.result)

\* process_lead_registration from the return (or the exception) of
\* create_stripe_checkout_link.
process_lead_registration_linked(cfg, line_user_id, f, h, last) ==
    IF last.outcome # "returned"
    THEN registration_raised(h)
    ELSE process_lead_registration_notify(cfg, line_user_id, f, h, last.result)

\* Mutant: the loops of process_lead_registration have no try/except, a
\* failed send leaves the use case; the KPI loop keeps its own.
fan_out_registration_unguarded(at, rest, txt, h, last) ==
    IF last.outcome # "returned" /\ at # "kpi_send"
    THEN registration_raised(h)
    ELSE IF rest # <<>>
         THEN Local(at, NewCall("send"), rest, txt, h)
         ELSE CASE at = "kpi_send" -> kpi_over(h, "done")
                [] at = "reg_fail_notify" -> registration_aborted(h)
                [] OTHER -> registration_done(h)

\* Mutant: the loop body has no try/except, a failed send leaves the loop.
fan_out_unguarded(at, rest, txt, h, last) ==
    IF last.outcome # "returned"
    THEN IF at = "kpi_send" THEN kpi_over(h, "raised") ELSE registration_raised(h)
    ELSE IF rest # <<>>
         THEN Local(at, NewCall("send"), rest, txt, h)
         ELSE CASE at = "kpi_send" -> kpi_over(h, "done")
                [] at = "reg_fail_notify" -> registration_aborted(h)
                [] OTHER -> registration_done(h)

\* A fan-out loop at position at after one call of send_line_message ended
\* (last): the exception, if any, was caught and logged (except Exception),
\* and the loop goes to the next recipient, or is over.
fan_out_next(at, rest, txt, h, last) ==
    IF rest # <<>>
    THEN Local(at, NewCall("send"), rest, txt, h)
    ELSE CASE at = "kpi_send" -> kpi_over(h, "done")
           [] at = "reg_fail_notify" -> registration_aborted(h)
           [] OTHER -> registration_done(h)

\* ---------------------------------------------------------------- actions

Init ==
    /\ \E s \in Setups :
        /\ store = s.store
        /\ config = s.config
        /\ LINE_USER_ID = s.LINE_USER_ID
        /\ STRIPE_SECRET_KEY = s.STRIPE_SECRET_KEY
    /\ runs = 0
    /\ faults = 0
    /\ pc = [p \in Procs |-> "idle"]
    /\ form = [p \in Procs |-> NoForm]
    /\ call = [p \in Procs |-> NoCall]
    /\ lastCall = [p \in Procs |-> NoLastCall]
    /\ todo = [p \in Procs |-> <<>>]
    /\ text = [p \in Procs |-> NoText]
    /\ hist = [p \in Procs |-> NoHist]
    /\ delivered = [p \in Procs |-> {}]

SetLocal(p, l) ==
    /\ pc' = [pc EXCEPT ![p] = l.pc]
    /\ call' = [call EXCEPT ![p] = l.call]
    /\ todo' = [todo EXCEPT ![p] = l.todo]
    /\ text' = [text EXCEPT ![p] = l.text]
    /\ hist' = [hist EXCEPT ![p] = l.hist]

\* The service answers resp to a request.
Respond(resp) ==
    /\ resp = "200" \/ faults < MaxFaults
    /\ faults' = IF resp = "200" THEN faults ELSE faults + 1

\* One invocation of the script by process p: main() up to the first
\* request of the KPI use case.  overlap: whether the run may start while
\* another process is still running.
main(p, overlap) ==
    /\ pc[p] \in Stopped
    /\ runs < MaxRuns
    /\ overlap \/ \A q \in Procs \ {p} : pc[q] \in Stopped
    /\ SetLocal(p, Local("kpi_query", NewCall("query"), <<>>, NoText, NoHist))
    /\ runs' = runs + 1
    /\ form' = [form EXCEPT ![p] = NoForm]
    /\ lastCall' = [lastCall EXCEPT ![p] = NoLastCall]
    /\ delivered' = [delivered EXCEPT ![p] = {}]
    /\ UNCHANGED <<store, config, LINE_USER_ID, STRIPE_SECRET_KEY, faults>>

\* main after the KPI use case: the FORM_* variables are read, and with a
\* FORM_EXTERNAL_ID process_lead_registration starts (up to its first
\* request); without one main returns.  sends and delivered start over
\* with the registration: they record the use case in progress.
main_form(p) ==
    /\ pc[p] = "kpi_done"
    /\ \E f \in Forms :
        /\ form' = [form EXCEPT ![p] = f]
        /\ IF f.external_id # ""
           THEN /\ SetLocal(p, Local("reg_query", NewCall("query"), <<>>, NoText,
                                     [NoHist EXCEPT !.kpi = hist[p].kpi]))
                /\ delivered' = [delivered EXCEPT ![p] = {}]
           ELSE /\ SetLocal(p, Local("exit", NoCall, <<>>, NoText, hist[p]))
                /\ UNCHANGED delivered
    /\ lastCall' = [lastCall EXCEPT ![p] = NoLastCall]
    /\ UNCHANGED <<store, config, LINE_USER_ID, STRIPE_SECRET_KEY, runs, faults>>

\* One request of the pagination loop of query_notion_leads, and what the
\* caller does when the call ends with it.
query_notion_leads(p) ==
    /\ pc[p] \in {"kpi_query", "reg_query"}
    /\ \E resp \in QueryResponses, days_elapsed \in Days :
        LET c       == call[p]
            data    == QueryAnswer(resp, store, c.cursor)
            results == c.results \o data.results
            more    == IF data.has_more /\ data.next_cursor # <<>>
                       THEN << [c EXCEPT !.results = results,
                                         !.cursor = data.next_cursor,
                                         !.reqs = c.reqs + 1] >>
                       ELSE <<>>
            r       == Attempt(c, pc[p], resp, results, more)
        IN /\ Respond(resp)
           /\ IF r.kind = "go"
              THEN /\ call' = [call EXCEPT ![p] = r.call]
                   /\ lastCall' = [lastCall EXCEPT ![p] = NoLastCall]
                   /\ UNCHANGED <<pc, todo, text, hist>>
              ELSE /\ lastCall' = [lastCall EXCEPT ![p] = r.last]
                   /\ SetLocal(p,
                        IF pc[p] = "kpi_query"
                        THEN send_daily_kpi_notification(config, LINE_USER_ID, hist[p],
                                                         r.last, days_elapsed)
                        ELSE process_lead_registration(form[p], hist[p], r.last))
    /\ UNCHANGED <<store, config, LINE_USER_ID, STRIPE_SECRET_KEY, runs, form, delivered>>

\* One request of send_line_message(uid, text) inside a fan-out loop, and
\* what the loop does when the call ends with it: the exception, if any, is
\* caught and logged, and the loop goes to the next recipient.
send_line_message(p) ==
    /\ pc[p] \in {"kpi_send", "reg_fail_notify", "reg_notify"}
    /\ \E resp \in Responses :
        LET uid  == Head(todo[p])
            r    == Attempt(call[p], pc[p], resp, <<>>, <<>>)
            h    == [hist[p] EXCEPT !.sends =
                        Append(@, [to |-> uid, kind |-> text[p].kind,
                                   outcome |-> IF r.last.outcome = "returned"
                                               THEN resp ELSE r.last.outcome])]
            rest == Tail(todo[p])
        IN /\ Respond(resp)
           /\ delivered' = [delivered EXCEPT ![p] =
                              IF Applied(resp)
                              THEN @ \cup {[to |-> uid, text |-> text[p]]}
                              ELSE @]
           /\ IF r.kind = "go"
              THEN /\ call' = [call EXCEPT ![p] = r.call]
                   /\ lastCall' = [lastCall EXCEPT ![p] = NoLastCall]
                   /\ UNCHANGED <<pc, todo, text, hist>>
              ELSE /\ lastCall' = [lastCall EXCEPT ![p] = r.last]
                   /\ SetLocal(p, fan_out_next(pc[p], rest, text[p], h, r.last))
    /\ UNCHANGED <<store, config, LINE_USER_ID, STRIPE_SECRET_KEY, runs, form>>

\* Mutant: the insert replaces the database's pages by the new page.
create_notion_lead_overwrite(p) ==
    /\ pc[p] = "reg_insert"
    /\ \E resp \in Responses :
        LET st    == IF Applied(resp)
                     THEN << Properties(config, form[p]) >>
                     ELSE store
            value == IF resp = "200" THEN <<Len(st)>> ELSE <<>>
            r     == Attempt(call[p], pc[p], resp, value, <<>>)
            h     == [hist[p] EXCEPT !.requested = @ \cup {"insert"},
                                     !.created = IF Applied(resp) THEN @ + 1 ELSE @]
        IN /\ Respond(resp)
           /\ store' = st
           /\ IF r.kind = "go"
              THEN /\ call' = [call EXCEPT ![p] = r.call]
                   /\ hist' = [hist EXCEPT ![p] = h]
                   /\ lastCall' = [lastCall EXCEPT ![p] = NoLastCall]
                   /\ UNCHANGED <<pc, todo, text>>
              ELSE /\ lastCall' = [lastCall EXCEPT ![p] = r.last]
                   /\ SetLocal(p, process_lead_registration_inserted(
                                      config, LINE_USER_ID, STRIPE_SECRET_KEY,
                                      form[p], h, r.last))
    /\ UNCHANGED <<config, LINE_USER_ID, STRIPE_SECRET_KEY, runs, form, delivered>>

\* The request of one attempt of create_notion_lead(properties), and what
\* process_lead_registration does when the call ends with it.
create_notion_lead(p) ==
    /\ pc[p] = "reg_insert"
    /\ \E resp \in Responses :
        LET st    == IF Applied(resp)
                     THEN Append(store, Properties(config, form[p]))
                     ELSE store
            value == IF resp = "200" THEN <<Len(st)>> ELSE <<>>
            r     == Attempt(call[p], pc[p], resp, value, <<>>)
            h     == [hist[p] EXCEPT !.requested = @ \cup {"insert"},
                                     !.created = IF Applied(resp) THEN @ + 1 ELSE @]
        IN /\ Respond(resp)
           /\ store' = st
           /\ IF r.kind = "go"
              THEN /\ call' = [call EXCEPT ![p] = r.call]
                   /\ hist' = [hist EXCEPT ![p] = h]
                   /\ lastCall' = [lastCall EXCEPT ![p] = NoLastCall]
                   /\ UNCHANGED <<pc, todo, text>>
              ELSE /\ lastCall' = [lastCall EXCEPT ![p] = r.last]
                   /\ SetLocal(p, process_lead_registration_inserted(
                                      config, LINE_USER_ID, STRIPE_SECRET_KEY,
                                      form[p], h, r.last))
    /\ UNCHANGED <<config, LINE_USER_ID, STRIPE_SECRET_KEY, runs, form, delivered>>

\* The request of one attempt of create_stripe_checkout_link when the key
\* is set, and what process_lead_registration does when the call ends.
create_stripe_checkout_link(p) ==
    /\ pc[p] = "reg_link"
    /\ \E resp \in Responses :
        LET h     == [hist[p] EXCEPT !.requested = @ \cup {"link"}]
            value == IF resp = "200" THEN <<"url">> ELSE <<>>
            r     == Attempt(call[p], pc[p], resp, value, <<>>)
        IN /\ Respond(resp)
           /\ IF r.kind = "go"
              THEN /\ call' = [call EXCEPT ![p] = r.call]
                   /\ hist' = [hist EXCEPT ![p] = h]
                   /\ lastCall' = [lastCall EXCEPT ![p] = NoLastCall]
                   /\ UNCHANGED <<pc, todo, text>>
              ELSE /\ lastCall' = [lastCall EXCEPT ![p] = r.last]
                   /\ SetLocal(p, process_lead_registration_linked(
                                      config, LINE_USER_ID, form[p], h, r.last))
    /\ UNCHANGED <<store, config, LINE_USER_ID, STRIPE_SECRET_KEY, runs, form, delivered>>

\* The process whose runs the schedule starts one after the other.
Scheduled == CHOOSE p \in Procs : \A q \in Procs : p <= q

\* Runs that do not overlap (the scheduler's guarantee the design assumes).
Next ==
    \/ main(Scheduled, FALSE)
    \/ main_form(Scheduled)
    \/ query_notion_leads(Scheduled)
    \/ send_line_message(Scheduled)
    \/ create_notion_lead(Scheduled)
    \/ create_stripe_checkout_link(Scheduled)

Spec == Init /\ [][Next]_vars

\* ------------------------------------------------------------ one invocation

\* Leads already in the database when the invocation starts, so that a
\* query takes several page requests.
LivePages ==
    << Page(<<"e3">>, "p2", <<>>, <<>>, "Pending"),
       Page(<<"e4">>, "p1", <<1000>>, <<5>>, "Pending") >>

InitLive ==
    /\ \E s \in Setups :
        /\ store = s.store \o LivePages
        /\ config = s.config
        /\ LINE_USER_ID = s.LINE_USER_ID
        /\ STRIPE_SECRET_KEY = s.STRIPE_SECRET_KEY
    /\ runs = 0
    /\ faults = 0
    /\ pc = [p \in Procs |-> "idle"]
    /\ form = [p \in Procs |-> NoForm]
    /\ call = [p \in Procs |-> NoCall]
    /\ lastCall = [p \in Procs |-> NoLastCall]
    /\ todo = [p \in Procs |-> <<>>]
    /\ text = [p \in Procs |-> NoText]
    /\ hist = [p \in Procs |-> NoHist]
    /\ delivered = [p \in Procs |-> {}]

\* The one invocation of the script.
main_once(p) == runs = 0 /\ main(p, FALSE)

\* One request of the pagination loop answered 200 with no results,
\* has_more true and a next_cursor: a new token for the position asked for
\* (a cursor is <<position>> or <<position, token>>; the store reads the
\* position).  The loop takes the cursor and asks again.
query_notion_leads_unending(p) ==
    /\ pc[p] \in {"kpi_query", "reg_query"}
    /\ \E token \in {0, 1} :
        LET c    == call[p]
            from == IF c.cursor = <<>> THEN 0 ELSE c.cursor[1]
            data == [results |-> <<>>, has_more |-> TRUE,
                     next_cursor |-> <<from, token>>]
        IN /\ data.next_cursor # c.cursor
           /\ call' = [call EXCEPT ![p] =
                         [c EXCEPT !.results = c.results \o data.results,
                                   !.cursor = data.next_cursor,
                                   !.reqs = IF c.reqs < MaxReqs THEN c.reqs + 1
                                                               ELSE c.reqs]]
    /\ lastCall' = [lastCall EXCEPT ![p] = NoLastCall]
    /\ UNCHANGED <<store, config, LINE_USER_ID, STRIPE_SECRET_KEY, runs, faults,
                   pc, form, todo, text, hist, delivered>>

\* The invocation against a store whose listing ends: every page request
\* is answered with one of QueryResponses.
NextPaged ==
    \/ main_once(Scheduled)
    \/ main_form(Scheduled)
    \/ query_notion_leads(Scheduled)
    \/ send_line_message(Scheduled)
    \/ create_notion_lead(Scheduled)
    \/ create_stripe_checkout_link(Scheduled)

\* The script runs single-threaded and synchronously: once started, the
\* invocation takes its next step (the request in progress is answered or
\* times out after 10 seconds).
SpecPaged == InitLive /\ [][NextPaged]_vars /\ WF_vars(NextPaged)

\* The invocation against any store, one that goes on answering has_more
\* with a cursor included.
NextLive ==
    \/ NextPaged
    \/ query_notion_leads_unending(Scheduled)

SpecLive == InitLive /\ [][NextLive]_vars /\ WF_vars(NextLive)

\* --------------------------------------------------------- overlapping runs

\* Two invocations of the script, one by each process, that may overlap in
\* time (nothing in the program prevents it; the design leaves it to the
\* scheduler).  The services answer every request 200 here: the fault
\* budget starts used up.
InitOverlap ==
    /\ \E s \in Setups :
        /\ store = s.store
        /\ config = s.config
        /\ LINE_USER_ID = s.LINE_USER_ID
        /\ STRIPE_SECRET_KEY = s.STRIPE_SECRET_KEY
    /\ runs = 0
    /\ faults = MaxFaults
    /\ pc = [p \in Procs |-> "idle"]
    /\ form = [p \in Procs |-> NoForm]
    /\ call = [p \in Procs |-> NoCall]
    /\ lastCall = [p \in Procs |-> NoLastCall]
    /\ todo = [p \in Procs |-> <<>>]
    /\ text = [p \in Procs |-> NoText]
    /\ hist = [p \in Procs |-> NoHist]
    /\ delivered = [p \in Procs |-> {}]

\* The first invocation by process p, whatever the other process is doing.
main_overlapping(p) == pc[p] = "idle" /\ main(p, TRUE)

NextOverlap ==
    \E p \in Procs :
        \/ main_overlapping(p)
        \/ main_form(p)
        \/ query_notion_leads(p)
        \/ send_line_message(p)
        \/ create_notion_lead(p)
        \/ create_stripe_checkout_link(p)

SpecOverlap == InitOverlap /\ [][NextOverlap]_vars

\* ------------------------------------------------ the functions on their own

\* The functions that make no request are also run on their own, on every
\* input of a bounded set.  call[p] is then the call with its arguments,
\* lastCall[p] the call with what it gave.

SeqsUpTo(S, n) == UNION {[1..k -> S] : k \in 0..n}

\* Values of a genre's notify_user_ids: lists with empty and repeated entries.
NotifyLists == SeqsUpTo({"", "u1", "u2"}, MaxIds)

\* Genres with a notify_user_ids list, and the genre without that key.
ResolveGenres ==
    {[EmptyGenre EXCEPT !.keys = {"notify_user_ids"}, !.notify_user_ids = l] :
        l \in NotifyLists}
    \cup {EmptyGenre}

\* LINE_USER_ID: not set, an identifier of the genres, one of its own.
Fallbacks == {"", "u1", "u3"}

\* Pages as the database holds them: Price null, negative, small, large;
\* Payment_Status an option, no name ("") or a null select ("NULL").
BatchPages ==
    {Page(<<>>, "p1", price, <<>>, payment) :
        price \in {<<>>, <<-1>>, <<1>>, <<500000>>, <<1000000>>, <<1000001>>},
        payment \in {"Completed", "Pending", "", "NULL"}}

\* Days of the month for the forecast (days_elapsed).
ForecastDays == {1, 7, 10, 31}

\* The call c is the one to make.
PureCall(c) == call = [p \in Procs |-> IF p = Scheduled THEN c ELSE NoCall]

\* One call: resolve_notify_user_ids on a config.yaml without a genre key
\* or with a list of up to MaxGenres genres, or the KPI message for a batch
\* of up to MaxBatch pages.
InitPure ==
    /\ store = <<>>
    /\ config = ConfigEmpty
    /\ LINE_USER_ID = ""
    /\ STRIPE_SECRET_KEY = ""
    /\ runs = 0
    /\ faults = 0
    /\ pc = [p \in Procs |-> "idle"]
    /\ form = [p \in Procs |-> NoForm]
    /\ \/ \E u \in Fallbacks :
            PureCall([fn |-> "resolve_notify_user_ids",
                      config |-> ConfigEmpty, LINE_USER_ID |-> u])
       \/ \E u \in Fallbacks, k \in 0..MaxGenres :
            \E g \in [1..k -> ResolveGenres] :
                PureCall([fn |-> "resolve_notify_user_ids",
                          config |-> [keys |-> {"genre"}, genre |-> g],
                          LINE_USER_ID |-> u])
       \/ \E d \in ForecastDays, k \in 0..MaxBatch :
            \E b \in [1..k -> BatchPages] :
                PureCall([fn |-> "kpi_message", leads |-> b, days_elapsed |-> d])
    /\ lastCall = [p \in Procs |-> NoLastCall]
    /\ todo = [p \in Procs |-> <<>>]
    /\ text = [p \in Procs |-> NoText]
    /\ hist = [p \in Procs |-> NoHist]
    /\ delivered = [p \in Procs |-> {}]

\* resolve_notify_user_ids(config), with the module's LINE_USER_ID.  It can
\* be called any number of times.
ResolveRecipients(p) ==
    /\ call[p].fn = "resolve_notify_user_ids"
    /\ lastCall' = [lastCall EXCEPT ![p] =
          [fn |-> call[p].fn, outcome |-> "returned",
           result |-> resolve_notify_user_ids(call[p].config, call[p].LINE_USER_ID)]]
    /\ UNCHANGED <<store, config, LINE_USER_ID, STRIPE_SECRET_KEY, runs, faults, pc,
                   form, call, todo, text, hist, delivered>>

\* send_daily_kpi_notification from the leads to message_text:
\* extract_lead_metrics(leads), then the lines of the message with the
\* forecast on day days_elapsed.
ComputeKpi(p) ==
    /\ call[p].fn = "kpi_message"
    /\ lastCall[p] = NoLastCall
    /\ lastCall' = [lastCall EXCEPT ![p] =
          IF MetricsRaises(call[p].leads)
          THEN [fn |-> call[p].fn, outcome |-> "AttributeError",
                metrics |-> <<>>, text |-> NoText]
          ELSE [fn |-> call[p].fn, outcome |-> "returned",
                metrics |-> extract_lead_metrics(call[p].leads),
                text |-> KpiMessage(extract_lead_metrics(call[p].leads),
                                    call[p].days_elapsed)]]
    /\ UNCHANGED <<store, config, LINE_USER_ID, STRIPE_SECRET_KEY, runs, faults, pc,
                   form, call, todo, text, hist, delivered>>

NextPure ==
    \/ ResolveRecipients(Scheduled)
    \/ ComputeKpi(Scheduled)

SpecPure == InitPure /\ [][NextPure]_vars

\* ------------------------------------------------------------- properties

\* The recipients of the sends that ended, in order.
Tos(sends) == [i \in 1..Len(sends) |-> sends[i].to]

\* Pages of the store whose External_ID is external_id.
Count(external_id) ==
    Cardinality({i \in 1..Len(store) : store[i].External_ID = <<external_id>>})

Recipients == resolve_notify_user_ids(config, LINE_USER_ID)

\* What a call of fn returns when its last attempt was answered 200.
Answer(fn) ==
    CASE fn = "query"  -> store
      [] fn = "insert" -> <<Len(store)>>
      [] fn = "link"   -> <<"url">>
      [] OTHER         -> <<>>

\* C1: a retry-wrapped call never makes more than 3 attempts; a call whose
\* attempt k is answered 200 after k-1 failed attempts returns what that
\* attempt got (the pages of that attempt alone, the new page's id, the
\* checkout URL), having made k requests where an attempt is one request,
\* and no further attempt of it follows.
C1_RetryBound ==
    \A p \in Procs :
        /\ call[p].att <= MaxAttempts
        /\ lastCall[p].att <= MaxAttempts
        /\ lastCall[p].final = "200" =>
              /\ lastCall[p].outcome = "returned"
              /\ lastCall[p].result = Answer(lastCall[p].fn)
              /\ lastCall[p].fn # "query" => lastCall[p].reqs = lastCall[p].att
              /\ call[p].reqs = 0 /\ call[p].att <= 1

\* C1 witness: create_notion_lead failed twice and returned on attempt 3.
C1_Witness ==
    /\ lastCall[Scheduled].fn = "insert"
    /\ lastCall[Scheduled].att = MaxAttempts
    /\ lastCall[Scheduled].outcome = "returned"
    /\ lastCall[Scheduled].final = "200"

\* C2 as claimed: a call that got an explicit non-success status makes no
\* further attempt (no call in progress has an HTTPError behind it), and the
\* call that ends on such a status has failed after exactly one request.
C2_NoRetryOnStatus ==
    \A p \in Procs :
        /\ call[p].http = 0
        /\ lastCall[p].final \in {"300", "500"} =>
              /\ lastCall[p].outcome # "returned"
              /\ lastCall[p].att = 1

\* C2 amended: an error status (>= 400) makes the attempt fail with
\* HTTPError, which is retried like a connection failure or a timeout: the
\* call ends in an error only when attempt 3 failed, and then with
\* RetryError; a call never ends on its first or second error status.  A
\* status below 400 other than 200 is logged and the call returns.
C2_StatusIsRetried ==
    \A p \in Procs :
        /\ call[p].http <= call[p].att - 1 \/ call[p].fn = "none"
        /\ lastCall[p].outcome \notin {"none", "returned"} =>
              /\ lastCall[p].outcome = "RetryError"
              /\ lastCall[p].att = MaxAttempts
        /\ lastCall[p].final = "500" =>
              /\ lastCall[p].outcome = "RetryError"
              /\ lastCall[p].att = MaxAttempts
        /\ lastCall[p].final = "300" => lastCall[p].outcome = "returned"

\* C2 witness: a call on its third attempt after two error statuses.
C2_Witness ==
    /\ call[Scheduled].fn = "insert"
    /\ call[Scheduled].http = 2
    /\ call[Scheduled].att = MaxAttempts

\* The error of the call that just ended reached its caller, which makes no
\* further call of it.
Surfaced(p) ==
    CASE lastCall[p].at = "kpi_query" ->
            pc[p] = "kpi_done" /\ hist[p].kpi = "raised" /\ hist[p].sends = <<>>
      [] lastCall[p].at = "reg_query" ->
            pc[p] = "crashed" /\ hist[p].reg = "raised" /\ hist[p].requested = {}
      [] lastCall[p].at = "reg_insert" ->
            /\ call[p].fn \in {"none", "send"}
            /\ \/ pc[p] = "reg_fail_notify" /\ text[p] = ErrorMessage("RetryError")
               \/ pc[p] = "exit" /\ hist[p].reg = "aborted"
      [] lastCall[p].at = "reg_link" ->
            pc[p] = "crashed" /\ hist[p].reg = "raised"
      [] OTHER ->
            /\ hist[p].sends # <<>>
            /\ hist[p].sends[Len(hist[p].sends)].outcome = "RetryError"
            /\ call[p].fn = "send" => Head(todo[p]) # hist[p].sends[Len(hist[p].sends)].to

\* C3: a call whose third attempt fails too (the two before it having
\* failed) ends in an error, RetryError, returns nothing, and the error
\* reaches the use case that made the call, which does not call again.
C3_ExhaustedSurfaces ==
    \A p \in Procs :
        (lastCall[p].att = MaxAttempts /\ AttemptException(lastCall[p].final) # "") =>
            /\ lastCall[p].outcome = "RetryError"
            /\ lastCall[p].result = <<>>
            /\ Surfaced(p)

\* C3 witness: the dedup query of a registration timed out three times.
C3_Witness ==
    /\ lastCall[Scheduled].at = "reg_query"
    /\ lastCall[Scheduled].att = MaxAttempts
    /\ lastCall[Scheduled].final = "timeout"
    /\ lastCall[Scheduled].outcome = "RetryError"

\* C4 as claimed: the store never holds two pages with one External ID, and
\* a call of create_notion_lead that the store answered 200 made one page.
C4_OneRecordPerId ==
    /\ \A e \in {"e1", "e2"} : Count(e) <= 1
    /\ \A p \in Procs :
          (lastCall[p].fn = "insert" /\ lastCall[p].final = "200") =>
              hist[p].created = 1

\* C5 as claimed: a registration that finds its External ID in the store
\* is a logged no-op that inserts nothing, and leaves exactly one page with
\* that External ID.
C5_SecondRunIsNoOp ==
    \A p \in Procs :
        /\ hist[p].reg = "skipped" =>
              /\ hist[p].requested = {}
              /\ hist[p].created = 0
              /\ Count(form[p].external_id) = 1
        /\ (lastCall[p].at = "reg_query" /\ lastCall[p].final = "200"
            /\ Count(form[p].external_id) >= 1) =>
              hist[p].reg = "skipped" /\ pc[p] = "exit"

\* Every send of the fan-out so far went, in resolved order, to a recipient
\* of the resolved list, with a message of this kind; the recipients left
\* are the rest of the list.
FanOutInOrder(p, kind) ==
    /\ Tos(hist[p].sends) \o todo[p] = Recipients
    /\ \A i \in 1..Len(hist[p].sends) : hist[p].sends[i].kind = kind

\* C6: in the KPI use case a send is attempted to every resolved recipient
\* in resolved order whatever the outcome of the sends before it, every
\* recipient whose send the push service answered 200 has the (one) KPI
\* message, and once the loop has started the use case does not raise.
C6_KpiFanOutIsolated ==
    \A p \in Procs :
        /\ pc[p] = "kpi_send" => FanOutInOrder(p, "kpi") /\ hist[p].kpi = "none"
        /\ lastCall[p].at = "kpi_send" =>
              pc[p] \in {"kpi_send", "kpi_done"} /\ hist[p].kpi # "raised"
        /\ (pc[p] = "kpi_done" /\ hist[p].kpi = "raised") => hist[p].sends = <<>>
        /\ (pc[p] = "kpi_done" /\ hist[p].kpi = "done") =>
              /\ FanOutInOrder(p, "kpi")
              /\ todo[p] = <<>>
              /\ Cardinality({m.text : m \in delivered[p]}) <= 1
              /\ \A i \in 1..Len(hist[p].sends) :
                    hist[p].sends[i].outcome = "200" =>
                        \E m \in delivered[p] :
                            m.to = hist[p].sends[i].to /\ m.text.kind = "kpi"

\* C6 witness: the send to the first recipient failed for good, the second
\* recipient got the message.
C6_Witness ==
    /\ pc[Scheduled] = "kpi_done"
    /\ Len(hist[Scheduled].sends) = 2
    /\ hist[Scheduled].sends[1].outcome = "RetryError"
    /\ hist[Scheduled].sends[2].outcome = "200"
    /\ \E m \in delivered[Scheduled] : m.to = hist[Scheduled].sends[2].to
    /\ \A m \in delivered[Scheduled] : m.to # hist[Scheduled].sends[1].to

\* C7: when the query of the KPI use case fails for good, or the metrics
\* computation raises, the use case ends without a send, main catches the
\* exception and goes on; after the KPI use case main always goes on, and
\* it starts the registration exactly when FORM_EXTERNAL_ID is set.
C7_KpiFailureIsolated ==
    /\ [](\A p \in Procs : pc[p] = "kpi_done" => ENABLED main_form(p))
    /\ [][\A p \in Procs :
            /\ (/\ pc[p] = "kpi_query"
                /\ lastCall'[p].at = "kpi_query"
                /\ \/ lastCall'[p].outcome # "returned"
                   \/ MetricsRaises(lastCall'[p].result))
               => /\ pc'[p] = "kpi_done"
                  /\ hist'[p].kpi = "raised"
                  /\ hist'[p].sends = <<>>
                  /\ delivered'[p] = {}
            /\ (pc[p] = "kpi_done" /\ pc'[p] # "kpi_done")
               => IF form'[p].external_id # ""
                  THEN /\ pc'[p] = "reg_query"
                       /\ call'[p] = NewCall("query")
                       /\ hist'[p].kpi = hist[p].kpi
                  ELSE pc'[p] = "exit"
       ]_vars

\* C7 witness: the registration is running after the KPI use case raised.
C7_Witness ==
    /\ pc[Scheduled] = "reg_insert"
    /\ hist[Scheduled].kpi = "raised"
    /\ hist[Scheduled].sends = <<>>

\* C8 as claimed: no exception leaves main.
C8_NothingLeavesMain ==
    \A p \in Procs : pc[p] # "crashed"

\* C9: when create_notion_lead fails, the failure message, which carries
\* the text of the exception, is sent to every resolved recipient in order
\* (each send attempted whatever became of the one before), then the use
\* case returns: no request for a payment link is made and no success
\* notification is sent.
C9_InsertFailureNotified ==
    \A p \in Procs :
        /\ (lastCall[p].at = "reg_insert" /\ lastCall[p].outcome # "returned") =>
              /\ text[p] = IF Recipients = <<>> THEN NoText
                           ELSE ErrorMessage(lastCall[p].outcome)
              /\ todo[p] = Recipients
              /\ pc[p] = IF Recipients = <<>> THEN "exit" ELSE "reg_fail_notify"
        /\ pc[p] = "reg_fail_notify" =>
              /\ FanOutInOrder(p, "fail")
              /\ text[p] = ErrorMessage("RetryError")
              /\ hist[p].reg = "none"
        /\ hist[p].reg = "aborted" =>
              /\ pc[p] = "exit"
              /\ FanOutInOrder(p, "fail")
              /\ todo[p] = <<>>
              /\ "insert" \in hist[p].requested
              /\ "link" \notin hist[p].requested
              /\ \A m \in delivered[p] : m.text = ErrorMessage("RetryError")

\* C9 witness: the insert failed and both recipients were sent the failure
\* message.
C9_Witness ==
    /\ hist[Scheduled].reg = "aborted"
    /\ Len(hist[Scheduled].sends) = 2
    /\ \A u \in {"u1", "u2"} :
          [to |-> u, text |-> ErrorMessage("RetryError")] \in delivered[Scheduled]

\* C10 as claimed: create_notion_lead ends in an error on every response
\* whose status is not 200, and the registration then goes no further.
C10_InsertFailsOnNon200 ==
    \A p \in Procs :
        (lastCall[p].fn = "insert" /\ lastCall[p].final # "200") =>
            /\ lastCall[p].outcome # "returned"
            /\ pc[p] \notin {"reg_link", "reg_notify"}
            /\ hist[p].reg # "done"

\* C11: without a Stripe key create_stripe_checkout_link returns None
\* without a request, whatever the product and the price: no run makes a
\* request to the payment provider, and a registration whose insert
\* returned goes straight to the success notification, whose message is the
\* one without a URL.
C11_NoKeyNoLinkRequest ==
    \A p \in Procs :
        STRIPE_SECRET_KEY = "" =>
            /\ pc[p] # "reg_link"
            /\ call[p].fn # "link" /\ lastCall[p].fn # "link"
            /\ "link" \notin hist[p].requested
            /\ (lastCall[p].at = "reg_insert" /\ lastCall[p].outcome = "returned") =>
                  /\ text[p] = IF Recipients = <<>> THEN NoText
                               ELSE LeadMessage(form[p].external_id, <<>>)
                  /\ todo[p] = Recipients
                  /\ pc[p] = IF Recipients = <<>> THEN "exit" ELSE "reg_notify"
            /\ pc[p] = "reg_notify" =>
                  text[p] = LeadMessage(form[p].external_id, <<>>)
            /\ hist[p].reg = "done" =>
                  \A m \in delivered[p] :
                      m.text = LeadMessage(form[p].external_id, <<>>)

\* C11 witness: without a key a registration ended with its success
\* notification delivered, the message carrying no URL.
C11_Witness ==
    /\ STRIPE_SECRET_KEY = ""
    /\ hist[Scheduled].reg = "done"
    /\ "insert" \in hist[Scheduled].requested
    /\ \E m \in delivered[Scheduled] :
          m.text = LeadMessage(form[Scheduled].external_id, <<>>)

\* The first position of uid in ids.
FirstAt(ids, uid) == CHOOSE i \in 1..Len(ids) : ids[i] = uid /\ \A j \in 1..(i-1) : ids[j] # uid

\* The identifiers as configured: the notify_user_ids of the genres in
\* configured order, then LINE_USER_ID.
Configured(c) ==
    LET genres == IF "genre" \in c.config.keys THEN c.config.genre ELSE <<>>
    IN Concat([i \in 1..Len(genres) |->
                  IF "notify_user_ids" \in genres[i].keys
                  THEN genres[i].notify_user_ids ELSE <<>>])
       \o <<c.LINE_USER_ID>>

\* C12: the list resolve_notify_user_ids returns has no empty identifier,
\* has no identifier twice, has exactly the non-empty configured
\* identifiers, in the order of their first occurrence among the genres'
\* lists in configured order followed by LINE_USER_ID; and resolving again
\* with the same configuration gives the same list.
C12_ResolveOrderedSet ==
    /\ [](\A p \in Procs :
            lastCall[p].fn = "resolve_notify_user_ids" =>
                LET r   == lastCall[p].result
                    ids == Configured(call[p])
                IN /\ \A i \in 1..Len(r) : r[i] # ""
                   /\ \A i, j \in 1..Len(r) : r[i] = r[j] => i = j
                   /\ {r[i] : i \in 1..Len(r)} = {ids[i] : i \in 1..Len(ids)} \ {""}
                   /\ \A i, j \in 1..Len(r) :
                         i < j => FirstAt(ids, r[i]) < FirstAt(ids, r[j]))
    /\ [][\A p \in Procs :
            lastCall[p].fn = "resolve_notify_user_ids" => lastCall'[p] = lastCall[p]]_vars

\* C12 witness: three genres name u2, an empty identifier and u1, and
\* LINE_USER_ID is u1 again: the list is u2, u1.
C12_Witness ==
    /\ lastCall[Scheduled].fn = "resolve_notify_user_ids"
    /\ Configured(call[Scheduled]) = <<"u2", "", "u1", "u1">>
    /\ lastCall[Scheduled].result = <<"u2", "u1">>

\* The pages of leads whose payment status is Completed.
Converted(leads) == {i \in 1..Len(leads) : leads[i].Payment_Status = "Completed"}

RECURSIVE PriceSum(_, _)
\* The sum of the prices (null: 0) of the pages of leads with index in S.
PriceSum(leads, S) ==
    IF S = {} THEN 0
    ELSE LET i == CHOOSE k \in S : TRUE
         IN (IF leads[i].Price = <<>> THEN 0 ELSE leads[i].Price[1])
            + PriceSum(leads, S \ {i})

\* The metrics of the design for the batch leads.
MetricsAsDefined(leads, m) ==
    /\ m.total_leads = Len(leads)
    /\ m.conversions = Cardinality(Converted(leads))
    /\ m.revenue = PriceSum(leads, Converted(leads))
    /\ m.cvr = IF Len(leads) = 0 THEN <<0, 1>>
               ELSE <<Cardinality(Converted(leads)), Len(leads)>>

\* C13 as claimed: for every batch extract_lead_metrics returns, and what
\* it returns is the number of records, the number of Completed records,
\* the sum of their prices and conversions / total, 0 for the empty batch.
C13_MetricsForEveryBatch ==
    \A p \in Procs :
        lastCall[p].fn = "kpi_message" =>
            /\ lastCall[p].outcome = "returned"
            /\ MetricsAsDefined(call[p].leads, lastCall[p].metrics)

\* What does hold of extract_lead_metrics: it raises exactly on the batches
\* with a page whose Payment_Status select is null, and on every other
\* batch it returns the metrics as defined.
MetricsWhenReturned ==
    \A p \in Procs :
        lastCall[p].fn = "kpi_message" =>
            /\ lastCall[p].outcome = "returned" <=>
                  \A i \in 1..Len(call[p].leads) :
                      call[p].leads[i].Payment_Status # "NULL"
            /\ lastCall[p].outcome = "returned" =>
                  MetricsAsDefined(call[p].leads, lastCall[p].metrics)

\* C14 as claimed: whatever the payment statuses and the stored prices of
\* a batch, the metrics computed for it have conversions <= total and
\* revenue >= 0.
C14_MetricsBounds ==
    \A p \in Procs :
        (lastCall[p].fn = "kpi_message" /\ lastCall[p].outcome = "returned") =>
            /\ lastCall[p].metrics.conversions <= lastCall[p].metrics.total_leads
            /\ lastCall[p].metrics.revenue >= 0

\* The forecast line of the KPI message the call built.
Forecast(p) == lastCall[p].text.lines[5]

\* C15 as claimed: with a revenue above 0 and below the target of
\* 10,000,000 the message on day d reports the truncation of
\* (10,000,000 - revenue) / (revenue / d) days; 500,000 on day 10 gives 190.
C15_ForecastOnStatedTarget ==
    \A p \in Procs :
        (/\ lastCall[p].fn = "kpi_message"
         /\ lastCall[p].outcome = "returned"
         /\ lastCall[p].metrics.revenue > 0
         /\ lastCall[p].metrics.revenue < stated_month_target) =>
            /\ Forecast(p) =
                  [msg |-> "days",
                   days |-> ((stated_month_target - lastCall[p].metrics.revenue)
                                * call[p].days_elapsed)
                            \div lastCall[p].metrics.revenue]
            /\ (lastCall[p].metrics.revenue = 500000 /\ call[p].days_elapsed = 10) =>
                  Forecast(p).days = 190

\* C16 as claimed, with the target the program uses and for the revenues
\* >= 0 of the design: revenue 0 reports "insufficient data", every revenue
\* at or above the target reports "target already achieved", every other
\* revenue a whole number of days >= 0.
C16_ForecastBranches ==
    \A p \in Procs :
        (/\ lastCall[p].fn = "kpi_message"
         /\ lastCall[p].outcome = "returned"
         /\ lastCall[p].metrics.revenue >= 0) =>
            LET revenue == lastCall[p].metrics.revenue
            IN CASE revenue = 0 -> Forecast(p).msg = "insufficient"
                 [] revenue # 0 /\ revenue >= month_target -> Forecast(p).msg = "achieved"
                 [] OTHER -> Forecast(p).msg = "days" /\ Forecast(p).days >= 0

\* C17 as claimed: an attempt of query_notion_leads sends its first request
\* without a cursor and with an empty list; every later request of the
\* attempt carries the cursor of the response before it, the list then
\* holding, in order, the pages of all responses so far; the attempt goes
\* on exactly while the response says has_more with a cursor, and a call
\* that returns (the store not having withheld the cursor) returns the
\* records of the store, each once, in order.
C17_Pagination ==
    /\ [](\A p \in Procs :
            /\ call[p].fn = "query" =>
                  LET n == Len(call[p].results)
                  IN /\ call[p].results = SubSeq(store, 1, n)
                     /\ call[p].cursor = IF n = 0 THEN <<>> ELSE <<n>>
                     /\ n > 0 => n < Len(store)
            /\ (/\ lastCall[p].fn = "query"
                /\ lastCall[p].outcome = "returned"
                /\ lastCall[p].final # "cut") =>
                  lastCall[p].result = store)
    /\ [][\A p \in Procs :
            /\ (call[p].fn = "query" /\ lastCall'[p].fn = "query"
                /\ lastCall'[p].final = "200")
               => Len(call[p].results) + PageSize >= Len(store)
            /\ (call[p].fn = "query" /\ call'[p].fn = "query"
                /\ call'[p].cursor # <<>>)
               => /\ call'[p].att = call[p].att
                  /\ Len(call'[p].results) = Len(call[p].results) + PageSize
                  /\ Len(call[p].results) + PageSize < Len(store)
       ]_vars

\* What does hold: the requests, the cursors and the list are as C17 says;
\* the attempt stops at a response without has_more (the store's last
\* page), at one without a cursor, and at a status other than 200 below
\* 400; it returns the pages received so far, which are the whole store
\* when its last response is the store's last page.
PaginationAsAnswered ==
    /\ [](\A p \in Procs :
            /\ call[p].fn = "query" =>
                  LET n == Len(call[p].results)
                  IN /\ call[p].results = SubSeq(store, 1, n)
                     /\ call[p].cursor = IF n = 0 THEN <<>> ELSE <<n>>
                     /\ n > 0 => n < Len(store)
            /\ (lastCall[p].fn = "query" /\ lastCall[p].final = "200") =>
                  /\ lastCall[p].outcome = "returned"
                  /\ lastCall[p].result = store)
    /\ [][\A p \in Procs :
            /\ (call[p].fn = "query" /\ lastCall'[p].fn = "query"
                /\ lastCall'[p].final = "200")
               => Len(call[p].results) + PageSize >= Len(store)
            /\ (call[p].fn = "query" /\ lastCall'[p].fn = "query"
                /\ lastCall'[p].final = "cut")
               => /\ lastCall'[p].outcome = "returned"
                  /\ lastCall'[p].result =
                        call[p].results \o QueryBody(store, call[p].cursor).results
            /\ (call[p].fn = "query" /\ lastCall'[p].fn = "query"
                /\ lastCall'[p].final = "300")
               => /\ lastCall'[p].outcome = "returned"
                  /\ lastCall'[p].result = call[p].results
            /\ (call[p].fn = "query" /\ call'[p].fn = "query"
                /\ call'[p].cursor # <<>>)
               => /\ call'[p].att = call[p].att
                  /\ Len(call'[p].results) = Len(call[p].results) + PageSize
                  /\ Len(call[p].results) + PageSize < Len(store)
       ]_vars

\* The store withheld the cursor of a page that is not its last, and the
\* call returned the pages up to it.
PaginationCutShort ==
    /\ lastCall[Scheduled].fn = "query"
    /\ lastCall[Scheduled].final = "cut"
    /\ lastCall[Scheduled].outcome = "returned"
    /\ lastCall[Scheduled].result # <<>>
    /\ Len(lastCall[Scheduled].result) < Len(store)

\* Every send of the fan-out that the push service answered 200 delivered
\* a message of this kind to its recipient.
AnsweredAreDelivered(p, kind) ==
    \A i \in 1..Len(hist[p].sends) :
        hist[p].sends[i].outcome = "200" =>
            \E m \in delivered[p] :
                m.to = hist[p].sends[i].to /\ m.text.kind = kind

\* C18: in both notification loops of the registration a send is attempted
\* to every resolved recipient in resolved order whatever became of the
\* sends before it, a send that failed for good is followed by the next
\* recipient's (or by the return of the use case), and no failed send
\* makes process_lead_registration raise.
C18_RegistrationFanOutIsolated ==
    \A p \in Procs :
        /\ pc[p] = "reg_notify" => FanOutInOrder(p, "lead") /\ hist[p].reg = "none"
        /\ pc[p] = "reg_fail_notify" => FanOutInOrder(p, "fail") /\ hist[p].reg = "none"
        /\ lastCall[p].at \in {"reg_notify", "reg_fail_notify"} =>
              /\ pc[p] \in {lastCall[p].at, "exit"}
              /\ hist[p].reg # "raised"
              /\ pc[p] = lastCall[p].at <=> todo[p] # <<>>
        /\ hist[p].reg = "done" =>
              /\ pc[p] = "exit"
              /\ FanOutInOrder(p, "lead")
              /\ todo[p] = <<>>
              /\ AnsweredAreDelivered(p, "lead")
        /\ hist[p].reg = "aborted" =>
              /\ pc[p] = "exit"
              /\ FanOutInOrder(p, "fail")
              /\ todo[p] = <<>>
              /\ AnsweredAreDelivered(p, "fail")
        /\ hist[p].reg = "raised" => hist[p].sends = <<>>

\* C18 witness: the success notification to the first recipient failed for
\* good, the second recipient got it and the registration returned.
C18_Witness ==
    /\ hist[Scheduled].reg = "done"
    /\ Len(hist[Scheduled].sends) = 2
    /\ hist[Scheduled].sends[1].outcome = "RetryError"
    /\ hist[Scheduled].sends[2].outcome = "200"
    /\ \E m \in delivered[Scheduled] :
          m.to = hist[Scheduled].sends[2].to /\ m.text.kind = "lead"
    /\ \A m \in delivered[Scheduled] : m.to # hist[Scheduled].sends[1].to

\* C19: when create_stripe_checkout_link fails after create_notion_lead
\* returned, the exception leaves process_lead_registration (and main): no
\* send of either notification is attempted, nothing is delivered, and the
\* pages the insert made are still in the store.
C19_LinkFailurePropagates ==
    \A p \in Procs :
        /\ (lastCall[p].at = "reg_link" /\ lastCall[p].outcome # "returned") =>
              /\ pc[p] = "crashed"
              /\ hist[p].reg = "raised"
              /\ call[p] = NoCall /\ todo[p] = <<>>
        /\ (hist[p].reg = "raised" /\ "link" \in hist[p].requested) =>
              /\ pc[p] = "crashed"
              /\ hist[p].sends = <<>>
              /\ delivered[p] = {}
              /\ "insert" \in hist[p].requested
              /\ Count(form[p].external_id) >= hist[p].created

\* C19 witness: the link request failed three times after the insert made
\* its page; the page is in the store and nobody was notified.
C19_Witness ==
    /\ lastCall[Scheduled].at = "reg_link"
    /\ lastCall[Scheduled].outcome = "RetryError"
    /\ hist[Scheduled].created = 1
    /\ Count(form[Scheduled].external_id) = 1
    /\ delivered[Scheduled] = {}

\* The product names of the configured genres.
ConfiguredProducts ==
    IF "genre" \in config.keys
    THEN {config.genre[i].product_name : i \in 1..Len(config.genre)}
    ELSE {}

\* The price and the expected conversion rate of the genre substituted for
\* a product without a genre: those of the first configured genre, 0 and
\* none when no genre is configured.
SubstitutedPrice ==
    IF "genre" \in config.keys /\ Len(config.genre) > 0
    THEN <<config.genre[1].price>> ELSE <<0>>

SubstitutedCvr ==
    IF "genre" \in config.keys /\ Len(config.genre) > 0
    THEN config.genre[1].expected_cvr ELSE <<>>

\* C20: a registration whose product no configured genre names is not a
\* failure: once the dedup scan found no duplicate the insert is attempted,
\* and every page the program inserted for such a product carries the
\* submitted product name with the price (and expected conversion rate) of
\* the first configured genre, or price 0 and no rate when no genre is
\* configured (no genre key, or an empty genre list).
C20_DefaultGenreSubstituted ==
    /\ \A p \in Procs :
          (/\ lastCall[p].at = "reg_query"
           /\ lastCall[p].outcome = "returned"
           /\ ~IsDuplicate(lastCall[p].result, form[p].external_id)) =>
              /\ pc[p] = "reg_insert"
              /\ call[p] = NewCall("insert")
              /\ hist[p].reg = "none"
    /\ \A p \in Procs :
          (hist[p].created > 0 /\ form[p].product \notin ConfiguredProducts) =>
              \E i \in 1..Len(store) :
                  /\ store[i].External_ID = <<form[p].external_id>>
                  /\ store[i].Product = form[p].product
    /\ \A i \in 1..Len(store) :
          (/\ store[i].External_ID \in {<<f.external_id>> : f \in Forms \ {NoForm}}
           /\ store[i].Product \notin ConfiguredProducts) =>
              /\ store[i].Price = SubstitutedPrice
              /\ store[i].CVR = SubstitutedCvr
              /\ store[i].Payment_Status = "Pending"

\* C20 witness: with two genres configured, a lead for the unknown product
\* px is in the store with the first genre's price.
C20_Witness ==
    /\ config = ConfigFull
    /\ form[Scheduled].product = "px"
    /\ hist[Scheduled].created = 1
    /\ \E i \in 1..Len(store) :
          /\ store[i].External_ID = <<form[Scheduled].external_id>>
          /\ store[i].Product = "px"
          /\ store[i].Price = <<Genre1.price>>

\* C20 witness for the empty genre: with an empty genre list the lead is
\* in the store with price 0.
C20_WitnessNoGenres ==
    /\ config = ConfigNoGenres
    /\ hist[Scheduled].created = 1
    /\ \E i \in 1..Len(store) :
          /\ store[i].External_ID = <<form[Scheduled].external_id>>
          /\ store[i].Product = form[Scheduled].product
          /\ store[i].Price = <<0>>

\* The processes whose run inserted a page for external_id.
Inserters(external_id) ==
    {p \in Procs : form[p].external_id = external_id /\ hist[p].created >= 1}

\* C21: nothing makes the dedup scan and the insert one step.  With runs
\* that overlap the store can come to hold two pages with one External ID,
\* and it does so only when both runs carry that External ID and each
\* inserted its page, each having ended its scan before the other's
\* insert: a scan that ends when a page with the External ID is in the
\* store (so, every scan of a run that starts after the other run's
\* insert) takes the skip path and inserts nothing.
C21_DedupInsertNotAtomic ==
    /\ [](\A e \in {"e1", "e2"} :
            /\ Count(e) = Cardinality(Inserters(e))
            /\ Count(e) >= 2 => Inserters(e) = Procs)
    /\ [](\A p \in Procs :
            (\A q \in Procs \ {p} : pc[q] = "idle") => Count(form[p].external_id) <= 1)
    /\ [][\A p \in Procs :
            (/\ pc[p] = "reg_query"
             /\ lastCall'[p].at = "reg_query"
             /\ Count(form[p].external_id) >= 1)
            => /\ hist'[p].reg = "skipped"
               /\ pc'[p] = "exit"
               /\ hist'[p].created = 0
               /\ store' = store
       ]_vars

\* C21 witness: both overlapping runs inserted a page for e1.
C21_Witness ==
    /\ Count("e1") = 2
    /\ \A p \in Procs : form[p].external_id = "e1" /\ hist[p].created = 1

\* C22: the pages of the store are never changed or removed: a step either
\* leaves the store as it is, or is a request of create_notion_lead that
\* appends one page, built from the form of the run; the KPI use case, the
\* dedup scan, the payment link and the notifications leave the store
\* unchanged, and the form of a run (its one registration) does not change
\* while the registration runs.
C22_StoreOnlyGrowsByInsert ==
    /\ [][\A p \in Procs :
            /\ pc[p] # "reg_insert" \/ store' = store \/
                  /\ store' = Append(store, Properties(config, form[p]))
                  /\ hist'[p].created = hist[p].created + 1
                  /\ store'[Len(store')].External_ID = <<form[p].external_id>>
            /\ pc[p] \in {"reg_query", "reg_insert", "reg_link", "reg_notify",
                          "reg_fail_notify"} => form'[p] = form[p]
       ]_vars
    /\ [][store' # store =>
            /\ Len(store') = Len(store) + 1
            /\ SubSeq(store', 1, Len(store)) = store
            /\ \E p \in Procs : pc[p] = "reg_insert"
       ]_vars
    /\ [](\A p \in Procs :
            pc[p] \in {"kpi_query", "kpi_send", "kpi_done"} =>
                hist[p].created = 0 /\ hist[p].requested = {})

\* C22 witness: a run has appended a page to a store that held one already,
\* which is still its first page.
C22_Witness ==
    /\ Len(store) >= 2
    /\ store[1].External_ID \in {<<"e0">>, <<>>}
    /\ hist[Scheduled].created = 1
    /\ store[Len(store)].External_ID = <<form[Scheduled].external_id>>

\* C23 as claimed: every invocation of main ends, by returning or by an
\* exception, whatever the services answer: no call goes beyond its third
\* attempt and a run that started reaches its end.
C23_MainTerminates ==
    /\ [](\A p \in Procs : call[p].att <= MaxAttempts)
    /\ (pc[Scheduled] \notin Stopped) ~> (pc[Scheduled] \in Stopped)

\* What does hold against a store whose listing ends (SpecPaged): the
\* pagination loop of an attempt has fetched fewer pages than the store
\* holds when it asks for another.
PaginationBounded ==
    \A p \in Procs :
        call[p].fn = "query" =>
            /\ Len(call[p].results) <= Len(store)
            /\ call[p].cursor # <<>> => call[p].cursor[1] < Len(store)
            /\ call[p].reqs <= MaxAttempts * (Len(store) + 1)

\* The invocation returned after its KPI query fetched the store in several
\* page requests, the first attempts having failed.
InvocationReturned ==
    /\ pc[Scheduled] = "exit"
    /\ hist[Scheduled].kpi = "done"
    /\ Len(store) > PageSize
    /\ faults >= MaxAttempts - 1

\* C24: the retry is around the whole of query_notion_leads: the attempt
\* that follows a failed page request starts with no cursor and an empty
\* list, whatever the failed attempt had fetched, so the list returned is
\* made of the pages of the last attempt alone: it is the store's pages from
\* the first on, each once.
C24_RetryRestartsPagination ==
    /\ [][\A p \in Procs :
            (/\ call[p].fn = "query" /\ call'[p].fn = "query"
             /\ call'[p].att = call[p].att + 1)
            => /\ call'[p].results = <<>>
               /\ call'[p].cursor = <<>>
               /\ call'[p].reqs = call[p].reqs + 1
       ]_vars
    /\ [](\A p \in Procs :
            (lastCall[p].fn = "query" /\ lastCall[p].outcome = "returned") =>
                /\ Len(lastCall[p].result) <= Len(store)
                /\ lastCall[p].result = SubSeq(store, 1, Len(lastCall[p].result)))

\* C24 witness: the first attempt fetched a page and failed on its second
\* request; the second attempt fetched both pages, and the list returned
\* has the two pages once.
C24_Witness ==
    /\ lastCall[Scheduled].fn = "query"
    /\ lastCall[Scheduled].outcome = "returned"
    /\ lastCall[Scheduled].att = 2
    /\ lastCall[Scheduled].reqs = 4
    /\ Len(store) = 2
    /\ lastCall[Scheduled].result = store

\* The registration part of a run issued nothing: no insert request, no
\* payment-link request, no registration notification.
NothingIssued(p) ==
    /\ hist[p].requested = {}
    /\ hist[p].created = 0
    /\ \A i \in 1..Len(hist[p].sends) : hist[p].sends[i].kind = "kpi"
    /\ \A m \in delivered[p] : m.text.kind = "kpi"

\* The run of p is past the insert: it asks for the payment link or sends
\* the success notification, or has done so.
PastInsert(p) ==
    \/ pc[p] \in {"reg_link", "reg_notify"}
    \/ hist[p].reg = "done"
    \/ "link" \in hist[p].requested
    \/ \E i \in 1..Len(hist[p].sends) : hist[p].sends[i].kind = "lead"

\* C25 as claimed: a run asks for a payment link or sends the success
\* notification only after its insert succeeded (the store made the page);
\* on the duplicate path and in a run without FORM_EXTERNAL_ID nothing of
\* the registration is issued.
C25_OnlyAfterInsertSucceeded ==
    \A p \in Procs :
        /\ PastInsert(p) => "insert" \in hist[p].requested /\ hist[p].created >= 1
        /\ hist[p].reg = "skipped" => NothingIssued(p) /\ hist[p].sends = <<>>
        /\ (pc[p] = "exit" /\ form[p] = NoForm) => NothingIssued(p)

\* What does hold: the payment link and the success notification come only
\* after create_notion_lead returned, and the duplicate path and the run
\* without a form issue nothing.
OnlyAfterInsertReturned ==
    /\ [](\A p \in Procs :
            /\ PastInsert(p) => "insert" \in hist[p].requested
            /\ hist[p].reg = "skipped" => NothingIssued(p) /\ hist[p].sends = <<>>
            /\ (pc[p] = "exit" /\ form[p] = NoForm) => NothingIssued(p))
    /\ [][\A p \in Procs :
            (pc'[p] \in {"reg_link", "reg_notify"} /\ pc[p] # pc'[p]) =>
                /\ pc[p] \in {"reg_insert", "reg_link"}
                /\ lastCall'[p].at = pc[p]
                /\ lastCall'[p].outcome = "returned"
       ]_vars

\* Runs one after the other, each invocation a process of its own: the
\* first run is process Scheduled, every later run is the other process, so
\* that what the first run did stays on record while a later run goes on.
main_first(p) == runs = 0 /\ p = Scheduled /\ main(p, FALSE)

main_later(p) == runs > 0 /\ p # Scheduled /\ main(p, FALSE)

NextLater ==
    \E p \in Procs :
        \/ main_first(p)
        \/ main_later(p)
        \/ main_form(p)
        \/ query_notion_leads(p)
        \/ send_line_message(p)
        \/ create_notion_lead(p)
        \/ create_stripe_checkout_link(p)

SpecLater == Init /\ [][NextLater]_vars

\* The run of p is over, its insert made a page, and its payment link or a
\* registration notification then failed.
LeftIncomplete(p) ==
    /\ pc[p] \in Stopped
    /\ form[p] # NoForm
    /\ hist[p].created >= 1
    /\ Count(form[p].external_id) >= 1
    /\ \/ lastCall[p].at = "reg_link" /\ lastCall[p].outcome # "returned"
       \/ \E i \in 1..Len(hist[p].sends) :
             hist[p].sends[i].kind = "lead" /\ hist[p].sends[i].outcome = "RetryError"

\* The run of q is the registration of the External ID that the run of p
\* stored; runs do not overlap, so it started after the run of p ended.
LaterRunOf(q, p) ==
    /\ q # p
    /\ LeftIncomplete(p)
    /\ pc[q] \notin Stopped
    /\ form[q] # NoForm
    /\ form[q].external_id = form[p].external_id

\* C26 as claimed: a later run with the External ID of a registration that
\* was left incomplete never goes past its dedup query: it requests no
\* insert and no payment link and sends no registration notification.
C26_LaterRunSkips ==
    \A p \in Procs : \A q \in Procs :
        LaterRunOf(q, p) =>
            /\ pc[q] = "reg_query"
            /\ NothingIssued(q)

\* What does hold: a later run whose dedup query was answered 200 on every
\* page takes the duplicate-skip path and issues nothing.
LaterRunSkipsWhenAnswered ==
    \A p \in Procs : \A q \in Procs :
        (/\ q # p
         /\ LeftIncomplete(p)
         /\ form[q] # NoForm
         /\ form[q].external_id = form[p].external_id
         /\ lastCall[q].at = "reg_query"
         /\ lastCall[q].final = "200") =>
            /\ pc[q] = "exit"
            /\ hist[q].reg = "skipped"
            /\ NothingIssued(q)

\* ------------------------------------- scripts/create_stripe_links.py

\* stripe.Product.list(limit=100), stripe.Price.list(product=..., limit=100)
product_list_limit == 100

price_list_limit == 100

\* int(os.getenv('AGA_PRICE', '1480')), int(os.getenv('CONSULT_PRICE', '3000'))
default_aga_price == 1480

default_consult_price == 3000

\* The objects of the payment provider's account.  In this specification
\* store is the account, newest object first (the order in which the
\* provider lists); an id is the object's rank of creation.
Product(id, name) == [object |-> "product", id |-> id, name |-> name]

Price(id, product, unit_amount, currency) ==
    [object |-> "price", id |-> id, product |-> product,
     unit_amount |-> unit_amount, currency |-> currency]

PaymentLink(id, price) == [object |-> "payment_link", id |-> id, price |-> price]

NewId(st) == Len(st) + 1

Reverse(s) == [i \in 1..Len(s) |-> s[Len(s) + 1 - i]]

FirstN(s, n) == SubSeq(s, 1, Min(n, Len(s)))

IsProduct(o) == o.object = "product"

\* stripe.Product.list(limit=100).data : one page, the newest products
ProductList(st) == FirstN(SelectSeq(st, IsProduct), product_list_limit)

\* stripe.Price.list(product=product_id, limit=100).data
PriceList(st, product_id) ==
    LET OfProduct(o) == o.object = "price" /\ o.product = product_id
    IN FirstN(SelectSeq(st, OfProduct), price_list_limit)

\* for product in products.data: if product.name == name: return product.id
\* (<<>> when the loop ends without a match)
FindProduct(products, name) ==
    LET hits == {i \in DOMAIN products : products[i].name = name}
    IN IF hits = {} THEN <<>>
       ELSE << products[CHOOSE i \in hits : \A j \in hits : i <= j].id >>

\* for price in prices.data:
\*     if price.unit_amount == amount and price.currency == currency: return price.id
FindPrice(prices, amount, currency) ==
    LET hits == {i \in DOMAIN prices :
                    prices[i].unit_amount = amount /\ prices[i].currency = currency}
    IN IF hits = {} THEN <<>>
       ELSE << prices[CHOOSE i \in hits : \A j \in hits : i <= j].id >>

\* The two products of the script ("aga" stands for the name
\* "AGA完全ロードマップ PDF", "consult" for "専門相談デポジット").
ProductName(item) == IF item = "aga_guide" THEN "aga" ELSE "consult"

ScriptNames == {ProductName("aga_guide"), ProductName("consultation")}

\* self.aga_price for the guide, self.consult_price for the consultation
ItemPrice(env, item) ==
    IF item = "aga_guide" THEN env.aga_price ELSE env.consult_price

\* run: which links PRODUCT_TYPE asks for, in the order run makes them
Items(product_type) ==
    (IF product_type \in {"all", "aga_guide"} THEN <<"aga_guide">> ELSE <<>>)
    \o (IF product_type \in {"all", "consultation"} THEN <<"consultation">> ELSE <<>>)

\* The environment of a run: PRODUCT_TYPE, AGA_PRICE, CONSULT_PRICE.
LinkEnvs ==
    [product_type  : {"all", "aga_guide", "consultation", "other"},
     aga_price     : {default_aga_price, default_aga_price + 1},
     consult_price : {default_consult_price}]

\* How many objects the account holds that are newer than the one looked
\* for: none, one less than a page of the list, a full page.
NewerProducts == {0, product_list_limit - 1, product_list_limit}

NewerPrices == {0, price_list_limit}

\* An account the script starts in: with or without the guide's product and
\* its default price (made by an earlier run), m later prices of that
\* product (earlier runs with other values of AGA_PRICE, all different) and
\* n later products that are none of the script's (their names are not
\* told apart).
Account(has, m, n) ==
    LET base   == IF has
                  THEN << Product(1, ProductName("aga_guide")),
                          Price(2, 1, default_aga_price, "jpy") >>
                  ELSE <<>>
        prices == IF has
                  THEN [i \in 1..m |->
                          Price(Len(base) + i, 1, default_aga_price + 1 + i, "jpy")]
                  ELSE <<>>
        prods  == [i \in 1..n |-> Product(Len(base) + Len(prices) + i, "other")]
    IN Reverse(base \o prices \o prods)

Accounts == {Account(has, m, n) : has \in BOOLEAN, m \in NewerPrices, n \in NewerProducts}

\* What one request to the provider ends in: "ok"; "error" (the library
\* raises, nothing was done); "lost" (the provider did the work, the
\* library raises because the response did not arrive).
StripeOutcomes == {"ok", "error", "lost"}

\* made: ids of the products and prices this run created; links: the
\* payment links it created; saved: save_links_to_file was reached.
NoLinkHist == [made |-> {}, links |-> <<>>, saved |-> FALSE]

NoLinkCall == [product_id |-> <<>>, price_id |-> <<>>]

\* reqs: the requests the call made to the provider.
LinkResult(fn, outcome, result, reqs) ==
    [fn |-> fn, at |-> fn, att |-> 1, reqs |-> reqs,
     outcome |-> outcome, result |-> result, final |-> outcome]

InitLinks ==
    /\ store \in Accounts
    /\ config = ConfigEmpty
    /\ LINE_USER_ID = ""
    /\ STRIPE_SECRET_KEY \in {"", "sk"}
    /\ runs = 0
    /\ faults = 0
    /\ pc = [p \in Procs |-> "idle"]
    /\ form = [p \in Procs |-> NoForm]
    /\ call = [p \in Procs |-> NoLinkCall]
    /\ lastCall = [p \in Procs |-> NoLastCall]
    /\ todo = [p \in Procs |-> <<>>]
    /\ text = [p \in Procs |-> NoText]
    /\ hist = [p \in Procs |-> NoLinkHist]
    /\ delivered = [p \in Procs |-> {}]

\* A request fails only while the budget of failures lasts.
StripeResponds(outcome) ==
    /\ outcome = "ok" \/ faults < MaxFaults
    /\ faults' = IF outcome = "ok" THEN faults ELSE faults + 1

\* manager = StripePaymentLinkManager(); manager.run() up to the first call:
\* without STRIPE_SECRET_KEY the constructor raises ValueError.
StripePaymentLinkManager(p) ==
    /\ pc[p] \in Stopped
    /\ runs < MaxRuns
    /\ runs' = runs + 1
    /\ \E env \in LinkEnvs :
        /\ form' = [form EXCEPT ![p] = env]
        /\ todo' = [todo EXCEPT ![p] =
                      IF STRIPE_SECRET_KEY = "" THEN <<>> ELSE Items(env.product_type)]
        /\ pc' = [pc EXCEPT ![p] =
                      IF STRIPE_SECRET_KEY = "" THEN "crashed"
                      ELSE IF Items(env.product_type) = <<>> THEN "save"
                      ELSE "product"]
    /\ call' = [call EXCEPT ![p] = NoLinkCall]
    /\ lastCall' = [lastCall EXCEPT ![p] = NoLastCall]
    /\ hist' = [hist EXCEPT ![p] = NoLinkHist]
    /\ UNCHANGED <<store, config, LINE_USER_ID, STRIPE_SECRET_KEY, faults, text, delivered>>

\* The step of p's run ends in an exception: it is logged and raised again
\* up to the top of the script.
LinkRaise(p, fn, reqs) ==
    /\ pc' = [pc EXCEPT ![p] = "crashed"]
    /\ lastCall' = [lastCall EXCEPT ![p] = LinkResult(fn, "raised", <<>>, reqs)]
    /\ UNCHANGED <<call, todo>>

\* create_or_get_product, its first request:
\*   products = stripe.Product.list(limit=100)
\*   for product in products.data: if product.name == name: return product.id
\* With no match the function goes on to create the product.
Product_list(p) ==
    /\ pc[p] = "product"
    /\ \E listed \in {"ok", "error"} :
        LET name  == ProductName(Head(todo[p]))
            found == FindProduct(ProductList(store), name)
        IN /\ StripeResponds(listed)
           /\ IF listed # "ok"
              THEN LinkRaise(p, "create_or_get_product", 1)
              ELSE IF found # <<>>
              THEN /\ pc' = [pc EXCEPT ![p] = "price"]
                   /\ call' = [call EXCEPT ![p].product_id = found]
                   /\ lastCall' = [lastCall EXCEPT ![p] =
                                     LinkResult("create_or_get_product", "returned", found, 1)]
                   /\ UNCHANGED todo
              ELSE /\ pc' = [pc EXCEPT ![p] = "product_create"]
                   /\ UNCHANGED <<call, lastCall, todo>>
    /\ UNCHANGED <<store, config, LINE_USER_ID, STRIPE_SECRET_KEY, runs, form,
                   text, hist, delivered>>

\* create_or_get_product, its second request:
\*   product = stripe.Product.create(name=name, ...); return product.id
Product_create(p) ==
    /\ pc[p] = "product_create"
    /\ \E created \in StripeOutcomes :
        LET name == ProductName(Head(todo[p]))
            id   == NewId(store)
        IN /\ StripeResponds(created)
           /\ store' = IF created = "error" THEN store
                       ELSE << Product(id, name) >> \o store
           /\ IF created = "ok"
              THEN /\ pc' = [pc EXCEPT ![p] = "price"]
                   /\ call' = [call EXCEPT ![p].product_id = <<id>>]
                   /\ lastCall' = [lastCall EXCEPT ![p] =
                          LinkResult("create_or_get_product", "returned", <<id>>, 2)]
                   /\ hist' = [hist EXCEPT ![p].made = @ \cup {id}]
                   /\ UNCHANGED todo
              ELSE /\ LinkRaise(p, "create_or_get_product", 2)
                   /\ UNCHANGED hist
    /\ UNCHANGED <<config, LINE_USER_ID, STRIPE_SECRET_KEY, runs, form, text, delivered>>

\* create_or_get_product(name, description): one request at a time.
create_or_get_product(p) == Product_list(p) \/ Product_create(p)

\* create_or_get_price, its first request:
\*   prices = stripe.Price.list(product=product_id, limit=100)
\*   for price in prices.data: if ... : return price.id
Price_list(p) ==
    /\ pc[p] = "price"
    /\ \E listed \in {"ok", "error"} :
        LET product_id == call[p].product_id[1]
            amount     == ItemPrice(form[p], Head(todo[p]))
            found      == FindPrice(PriceList(store, product_id), amount, "jpy")
        IN /\ StripeResponds(listed)
           /\ IF listed # "ok"
              THEN LinkRaise(p, "create_or_get_price", 1)
              ELSE IF found # <<>>
              THEN /\ pc' = [pc EXCEPT ![p] = "link"]
                   /\ call' = [call EXCEPT ![p].price_id = found]
                   /\ lastCall' = [lastCall EXCEPT ![p] =
                                     LinkResult("create_or_get_price", "returned", found, 1)]
                   /\ UNCHANGED todo
              ELSE /\ pc' = [pc EXCEPT ![p] = "price_create"]
                   /\ UNCHANGED <<call, lastCall, todo>>
    /\ UNCHANGED <<store, config, LINE_USER_ID, STRIPE_SECRET_KEY, runs, form,
                   text, hist, delivered>>

\* create_or_get_price, its second request:
\*   price = stripe.Price.create(product=product_id, unit_amount=amount,
\*                               currency=currency); return price.id
Price_create(p) ==
    /\ pc[p] = "price_create"
    /\ \E created \in StripeOutcomes :
        LET product_id == call[p].product_id[1]
            amount     == ItemPrice(form[p], Head(todo[p]))
            id         == NewId(store)
        IN /\ StripeResponds(created)
           /\ store' = IF created = "error" THEN store
                       ELSE << Price(id, product_id, amount, "jpy") >> \o store
           /\ IF created = "ok"
              THEN /\ pc' = [pc EXCEPT ![p] = "link"]
                   /\ call' = [call EXCEPT ![p].price_id = <<id>>]
                   /\ lastCall' = [lastCall EXCEPT ![p] =
                          LinkResult("create_or_get_price", "returned", <<id>>, 2)]
                   /\ hist' = [hist EXCEPT ![p].made = @ \cup {id}]
                   /\ UNCHANGED todo
              ELSE /\ LinkRaise(p, "create_or_get_price", 2)
                   /\ UNCHANGED hist
    /\ UNCHANGED <<config, LINE_USER_ID, STRIPE_SECRET_KEY, runs, form, text, delivered>>

\* create_or_get_price(product_id, amount, currency='jpy'): one request at
\* a time.
create_or_get_price(p) == Price_list(p) \/ Price_create(p)

\* create_payment_link(price_id, product_name), and run going on to the next
\* product or to the output.
create_payment_link(p) ==
    /\ pc[p] = "link"
    /\ \E created \in StripeOutcomes :
        LET id   == NewId(store)
            rest == Tail(todo[p])
        IN /\ StripeResponds(created)
           /\ store' = IF created = "error" THEN store
                       ELSE << PaymentLink(id, call[p].price_id[1]) >> \o store
           /\ IF created = "ok"
              THEN /\ pc' = [pc EXCEPT ![p] = IF rest = <<>> THEN "save" ELSE "product"]
                   /\ todo' = [todo EXCEPT ![p] = rest]
                   /\ call' = [call EXCEPT ![p] = NoLinkCall]
                   /\ lastCall' = [lastCall EXCEPT ![p] =
                                     LinkResult("create_payment_link", "returned", <<id>>, 1)]
                   /\ hist' = [hist EXCEPT ![p].links = Append(@, id)]
              ELSE /\ LinkRaise(p, "create_payment_link", 1)
                   /\ UNCHANGED hist
    /\ UNCHANGED <<config, LINE_USER_ID, STRIPE_SECRET_KEY, runs, form, text, delivered>>

\* save_links_to_file(created_links): an error of the file system is logged
\* and swallowed; run ends.
save_links_to_file(p) ==
    /\ pc[p] = "save"
    /\ pc' = [pc EXCEPT ![p] = "exit"]
    /\ hist' = [hist EXCEPT ![p].saved = TRUE]
    /\ lastCall' = [lastCall EXCEPT ![p] =
                      LinkResult("save_links_to_file", "returned", <<>>, 0)]
    /\ UNCHANGED <<store, config, LINE_USER_ID, STRIPE_SECRET_KEY, runs, faults,
                   form, call, todo, text, delivered>>

\* Runs of the script one after the other.
NextLinks ==
    \/ StripePaymentLinkManager(Scheduled)
    \/ Product_list(Scheduled)
    \/ Product_create(Scheduled)
    \/ Price_list(Scheduled)
    \/ Price_create(Scheduled)
    \/ create_payment_link(Scheduled)
    \/ save_links_to_file(Scheduled)

SpecLinks == InitLinks /\ [][NextLinks]_vars

\* Two runs of the script at the same time on one account, every request
\* answered: the account is empty or holds the guide's product and price.
InitLinksOverlap ==
    /\ store \in {Account(FALSE, 0, 0), Account(TRUE, 0, 0)}
    /\ config = ConfigEmpty
    /\ LINE_USER_ID = ""
    /\ STRIPE_SECRET_KEY = "sk"
    /\ runs = 0
    /\ faults = MaxFaults
    /\ pc = [p \in Procs |-> "idle"]
    /\ form = [p \in Procs |-> NoForm]
    /\ call = [p \in Procs |-> NoLinkCall]
    /\ lastCall = [p \in Procs |-> NoLastCall]
    /\ todo = [p \in Procs |-> <<>>]
    /\ text = [p \in Procs |-> NoText]
    /\ hist = [p \in Procs |-> NoLinkHist]
    /\ delivered = [p \in Procs |-> {}]

NextLinksOverlap ==
    \E p \in Procs :
        \/ pc[p] = "idle" /\ StripePaymentLinkManager(p)
        \/ Product_list(p)
        \/ Product_create(p)
        \/ Price_list(p)
        \/ Price_create(p)
        \/ create_payment_link(p)
        \/ save_links_to_file(p)

SpecLinksOverlap == InitLinksOverlap /\ [][NextLinksOverlap]_vars

\* Products of the account with this name.
ProductsNamed(st, name) ==
    {i \in DOMAIN st : st[i].object = "product" /\ st[i].name = name}

\* Prices of the account with this product, amount and currency.
PricesLike(st, product_id, amount, currency) ==
    {i \in DOMAIN st : /\ st[i].object = "price"
                       /\ st[i].product = product_id
                       /\ st[i].unit_amount = amount
                       /\ st[i].currency = currency}

OneProductPerName ==
    \A name \in ScriptNames : Cardinality(ProductsNamed(store, name)) <= 1

OnePricePerKey ==
    \A i \in DOMAIN store :
        store[i].object = "price" =>
            PricesLike(store, store[i].product, store[i].unit_amount,
                       store[i].currency) = {i}

\* C27 as claimed: create_or_get_product called with a name the account
\* has, and create_or_get_price called with a product, amount and currency
\* the account has, return the id of the existing object and create
\* nothing (unless the listing itself fails), so the account never holds
\* two products of one of the script's names nor two prices of one
\* product, amount and currency.
C27_CreateOrGet ==
    /\ [](OneProductPerName /\ OnePricePerKey)
    /\ [][\A p \in Procs :
            /\ (/\ pc[p] = "product" /\ pc'[p] # "product"
                /\ ProductsNamed(store, ProductName(Head(todo[p]))) # {})
               => /\ pc'[p] # "product_create"
                  /\ lastCall'[p].outcome = "returned" =>
                        \E i \in ProductsNamed(store, ProductName(Head(todo[p]))) :
                            lastCall'[p].result = << store[i].id >>
            /\ (/\ pc[p] = "price" /\ pc'[p] # "price"
                /\ PricesLike(store, call[p].product_id[1],
                              ItemPrice(form[p], Head(todo[p])), "jpy") # {})
               => /\ pc'[p] # "price_create"
                  /\ lastCall'[p].outcome = "returned" =>
                        \E i \in PricesLike(store, call[p].product_id[1],
                                            ItemPrice(form[p], Head(todo[p])), "jpy") :
                            lastCall'[p].result = << store[i].id >>
       ]_vars

\* The account's products fit in one page of the product list, and the
\* prices of each product in one page of the price list.
AllListed ==
    /\ Len(SelectSeq(store, IsProduct)) <= product_list_limit
    /\ \A i \in DOMAIN store :
          store[i].object = "product" =>
              Len(PriceList(store, store[i].id)) =
                  Cardinality({j \in DOMAIN store : /\ store[j].object = "price"
                                                    /\ store[j].product = store[i].id})

\* What does hold: as long as every list fits in one page, the two
\* functions are create-or-get.
CreateOrGetWithinOnePage ==
    /\ [](AllListed => OneProductPerName /\ OnePricePerKey)
    /\ [][\A p \in Procs :
            (AllListed /\ pc[p] = "product" /\ pc'[p] # "product"
             /\ ProductsNamed(store, ProductName(Head(todo[p]))) # {})
            => /\ pc'[p] # "product_create"
               /\ lastCall'[p].outcome = "returned" =>
                     \E i \in ProductsNamed(store, ProductName(Head(todo[p]))) :
                         lastCall'[p].result = << store[i].id >>
       ]_vars

\* Overlapping runs: both listed before either created, and the account
\* holds two products of one name although every list fits in one page.
OverlappingRunsDuplicate ==
    /\ AllListed
    /\ \E name \in ScriptNames : Cardinality(ProductsNamed(store, name)) = 2
    /\ \A p \in Procs : pc[p] = "exit"

====
